---- MODULE Spec2Model ----
(***************************************************************************)
(* A model of Sanctum, the HTTP persistence layer of the Lightning bot:    *)
(* the automod rule engine (routers/automod.py), the report aggregator     *)
(* (routers/reports.py), the reminder store (routers/timers.py), the       *)
(* infraction ledger (routers/infractions.py), the guild registry          *)
(* (routers/guilds.py), the guild configuration (routers/config.py) and    *)
(* the API-key gate in front of the routers (security.py).                 *)
(*                                                                         *)
(* Every handler is an asyncio coroutine; each `await` on the pool or on a *)
(* connection is a suspension point, so a handler that issues several      *)
(* statements is modelled as one step per statement, run by a request slot *)
(* (a member of Procs), and handlers that issue one statement are one      *)
(* atomic action.  The tables hold the committed rows of the database.     *)
(* An optional value (Python None / SQL NULL) is the empty sequence <<>>,  *)
(* a present value v is <<v>>.                                             *)
(***************************************************************************)
EXTENDS Integers, Sequences, FiniteSets, TLC

VARIABLES
    rules,        \* table guild_automod_rules (committed rows)
    punishments,  \* table guild_automod_punishment (committed rows)
    rule_seq,     \* the serial sequence behind guild_automod_rules.id
    ar,           \* the add_new_automod_rule requests in flight, per slot
    reports,      \* table message_reports
    reporters,    \* table message_reporters
    report_seq,   \* the serial sequence behind message_reports.id
    now,          \* the database clock (NOW()), in ticks
    cr,           \* the create_guild_message_report requests in flight, per slot
    timers,       \* table timers
    timer_seq,    \* the serial sequence behind timers.id
    er,           \* the edit_user_reminder requests in flight, per slot
    infractions,  \* table infractions
    inf_seq,      \* the serial sequence behind infractions.id
    guilds,       \* table guilds
    guild_config, \* table guild_config
    guild_automod_config,  \* table guild_automod_config
    gq,           \* the create_guild requests in flight, per slot
    resp          \* the response of the last single-statement handler

automodVars == <<rules, punishments, rule_seq, ar>>
reportVars == <<reports, reporters, report_seq, now, cr>>
timerVars == <<timers, timer_seq, er>>
infractionVars == <<infractions, inf_seq>>
guildVars == <<guilds, guild_config, guild_automod_config, gq>>
vars == <<rules, punishments, rule_seq, ar, reports, reporters, report_seq, now, cr,
          timers, timer_seq, er, infractions, inf_seq, guilds, guild_config,
          guild_automod_config, gq, resp>>

(***************************************************************************)
(* Bounds and input sets                                                   *)
(***************************************************************************)
MaxRuleId == 3
MaxReportId == 2
MaxNow == 3
MaxTimerId == 2
MaxInfractionId == 1

Procs == {1, 2}
Guilds == {1, 2}
\* The guilds the concurrent add-rule requests and the rule deletions address.
RuleGuilds == {1}
\* The slots that run report creations.
ReportProcs == {1}

Some(v) == <<v>>
Null == <<>>

(***************************************************************************)
(* Error signals and the status each one is answered with                  *)
(***************************************************************************)
\* "ok": the handler returned; "NotFound": sanctum.errors.NotFound;
\* "Conflict": HTTPException(409); "BadRequest": HTTPException(400);
\* "ValidationError": the request model's validator raised, the handler never ran;
\* "UniqueViolation" / "DatabaseError": an asyncpg exception nothing catches;
\* "Unauthorized": HTTPException(401) of validate_api_key; "NotAuthenticated": the
\* HTTPException(403) with which APIKeyHeader answers a request without the header.
StatusOf(err) ==
    CASE err = "ok" -> 200
      [] err = "NotFound" -> 404
      [] err = "Unauthorized" -> 401
      [] err = "NotAuthenticated" -> 403
      [] err = "Conflict" -> 409
      [] err = "BadRequest" -> 400
      [] err = "ValidationError" -> 422
      [] OTHER -> 500

NoResp == [op |-> "none", err |-> "ok"]

(***************************************************************************)
(* Automod rule engine                                                     *)
(***************************************************************************)
RuleTypes == {"message-spam", "mass-mentions", "url-spam", "invite-spam",
              "message-content-spam", "auto-dehoist", "auto-normalize"}

PunishmentTypes == {"DELETE", "WARN", "MUTE", "KICK", "BAN"}

\* The rule payloads the requests of the model submit.
ReqRuleTypes == {"message-spam", "auto-dehoist"}
ReqPunishments == {[type |-> "MUTE", duration |-> Some(60)]}
ReqCounts == {5, 6}

AutoModEventModel ==
    [type: ReqRuleTypes, count: ReqCounts, seconds: {10}, ignores: {<<>>},
     punishment: {Null} \cup {Some(p) : p \in ReqPunishments}]

\* The rule types the validator exempts from carrying a punishment.
NoPunishmentTypes == {"auto-dehoist", "auto-normalize"}

\* The root validator: TRUE when the payload is accepted.
AcceptAnyPayload(event) == TRUE
check_punishment(event) ==
    ~(event.type \notin NoPunishmentTypes /\ event.punishment = Null)

IdleReq == [pc |-> "idle", guild_id |-> 0, event |-> Null, rnum |-> 0,
            err |-> "ok", conn |-> FALSE, txRule |-> {}, txPunishment |-> {}]

\* (RulesOfGuild: the same condition without its type, every rule of the guild.)
RulesOfGuild(guild_id, type) == {r \in rules : r.guild_id = guild_id}

\* Rows of guild_automod_rules with this (guild_id, type).
ExistingRules(guild_id, type) ==
    {r \in rules : r.guild_id = guild_id /\ r.type = type}

\* The handler's existence check: SELECT * ... WHERE guild_id=$1 AND type=$2 LIMIT 1.
\* (SelectNothing: the same query with its two arguments swapped matches no row.)
SelectNothing(guild_id, type) == {}
SelectExistingRule(guild_id, type) == ExistingRules(guild_id, type)

\* The table has a unique index on (guild_id, type) (the data model's key): an insert
\* of a key that a committed row holds fails with UniqueViolationError, and an insert
\* waits while another transaction holds an uncommitted row with the same key.
UniqueRuleIndexHit(guild_id, type) == ExistingRules(guild_id, type) # {}

RuleKeyLocked(p, guild_id, type) ==
    \E q \in Procs \ {p} :
        \E r \in ar[q].txRule : r.guild_id = guild_id /\ r.type = type

\* What the other connections see of `table` after `row` was inserted inside
\* conn.transaction() and before the transaction ends: nothing of the row.
Autocommit(table, row) == table \cup {row}
InTransaction(table, row) == table

RuleRow(id, guild_id, event) ==
    [id |-> id, guild_id |-> guild_id, type |-> event.type, count |-> event.count,
     seconds |-> event.seconds, ignores |-> event.ignores]

PunishmentRow(id, punishment) ==
    [id |-> id, type |-> punishment.type, duration |-> punishment.duration]

\* (ReleaseOnReturn: the request ends with its connection released after the last
\* statement only, `conn = await pool.acquire()` ... `await pool.release(conn)`
\* without the `async with`, so an exception leaves the connection held.)
ReleaseOnReturn(p, err) ==
    [ar[p] EXCEPT !.pc = "done", !.err = err, !.conn = (err # "ok"),
                  !.txRule = {}, !.txPunishment = {}]

\* The request ends: the connection goes back to the pool, an open transaction is
\* rolled back, the error (or "ok") is answered.
Answer(p, err) ==
    [ar[p] EXCEPT !.pc = "done", !.err = err, !.conn = FALSE,
                  !.txRule = {}, !.txPunishment = {}]

\* PUT /guilds/{guild_id}/automod/rules arrives: the body is validated, then the
\* handler starts and acquires a connection.
AddRuleStart(p, guild_id, event) ==
    /\ ar[p].pc = "idle"
    /\ IF check_punishment(event)
       THEN ar' = [ar EXCEPT ![p] = [IdleReq EXCEPT !.pc = "check", !.guild_id = guild_id,
                                                   !.event = Some(event), !.conn = TRUE]]
       ELSE ar' = [ar EXCEPT ![p] = [IdleReq EXCEPT !.pc = "done", !.guild_id = guild_id,
                                                   !.event = Some(event),
                                                   !.err = "ValidationError"]]
    /\ UNCHANGED <<rules, punishments, rule_seq, resp, reportVars, timerVars, infractionVars, guildVars>>

\* SELECT ... WHERE guild_id=$1 AND type=$2 LIMIT 1; 409 when a row is found.
AddRuleCheck(p) ==
    /\ ar[p].pc = "check"
    /\ IF SelectExistingRule(ar[p].guild_id, ar[p].event[1].type) # {}
       THEN ar' = [ar EXCEPT ![p] = Answer(p, "Conflict")]
       ELSE ar' = [ar EXCEPT ![p].pc = "insert_rule"]
    /\ UNCHANGED <<rules, punishments, rule_seq, resp, reportVars, timerVars, infractionVars, guildVars>>

\* conn.transaction() is entered and INSERT INTO guild_automod_rules ... RETURNING id
\* runs.  The sequence advances whether or not the insert succeeds.
AddRuleInsertRule(p) ==
    /\ ar[p].pc = "insert_rule"
    /\ rule_seq <= MaxRuleId
    /\ ~RuleKeyLocked(p, ar[p].guild_id, ar[p].event[1].type)
    /\ rule_seq' = rule_seq + 1
    /\ IF UniqueRuleIndexHit(ar[p].guild_id, ar[p].event[1].type)
       THEN /\ ar' = [ar EXCEPT ![p] = Answer(p, "UniqueViolation")]
            /\ rules' = rules
       ELSE LET row == RuleRow(rule_seq, ar[p].guild_id, ar[p].event[1])
            IN /\ ar' = [ar EXCEPT ![p].rnum = rule_seq, ![p].txRule = {row},
                                    ![p].pc = IF ar[p].event[1].punishment # Null
                                              THEN "insert_punishment" ELSE "commit"]
               /\ rules' = InTransaction(rules, row)
    /\ UNCHANGED <<punishments, resp, reportVars, timerVars, infractionVars, guildVars>>

\* INSERT INTO guild_automod_punishment ...; the statement may fail in the database
\* (ok = FALSE), which leaves the transaction block by an exception: rollback.
AddRulePunishment(p, ok) ==
    /\ ar[p].pc = "insert_punishment"
    /\ IF ok
       THEN ar' = [ar EXCEPT ![p].pc = "commit",
                             ![p].txPunishment =
                                 {PunishmentRow(ar[p].rnum, ar[p].event[1].punishment[1])}]
       ELSE ar' = [ar EXCEPT ![p] = [Answer(p, "DatabaseError") EXCEPT !.rnum = ar[p].rnum]]
    /\ UNCHANGED <<rules, punishments, rule_seq, resp, reportVars, timerVars, infractionVars, guildVars>>

\* The transaction block is left normally: commit, release, return {"id": rnum}.
AddRuleCommit(p) ==
    /\ ar[p].pc = "commit"
    /\ rules' = rules \cup ar[p].txRule
    /\ punishments' = punishments \cup ar[p].txPunishment
    /\ ar' = [ar EXCEPT ![p] = Answer(p, "ok")]
    /\ UNCHANGED <<rule_seq, resp, reportVars, timerVars, infractionVars, guildVars>>

\* The response has been sent; the slot takes the next request.
AddRuleDone(p) ==
    /\ ar[p].pc = "done"
    /\ ar' = [ar EXCEPT ![p] = IdleReq]
    /\ UNCHANGED <<rules, punishments, rule_seq, resp, reportVars, timerVars, infractionVars, guildVars>>

\* The foreign key of guild_automod_punishment.id deletes the punishment of a
\* deleted rule (the rule and its punishment are deleted together).
OnDeleteCascade(deleted) ==
    {pn \in punishments : pn.id \notin {r.id : r \in deleted}}

\* DELETE /guilds/{guild_id}/automod/rules/{event_name}
delete_guild_automod_rule(guild_id, event_name) ==
    LET deleted == ExistingRules(guild_id, event_name)
    IN /\ rules' = rules \ deleted
       /\ punishments' = OnDeleteCascade(deleted)
       /\ resp' = [op |-> "deleteRule",
                    err |-> IF deleted = {} THEN "NotFound" ELSE "ok"]
       /\ UNCHANGED <<rule_seq, ar, reportVars, timerVars, infractionVars, guildVars>>

NextAutomod ==
    \/ \E p \in Procs, g \in RuleGuilds, e \in AutoModEventModel : AddRuleStart(p, g, e)
    \/ \E p \in Procs : AddRuleCheck(p)
    \/ \E p \in Procs : AddRuleInsertRule(p)
    \/ \E p \in Procs, ok \in BOOLEAN : AddRulePunishment(p, ok)
    \/ \E p \in Procs : AddRuleCommit(p)
    \/ \E p \in Procs : AddRuleDone(p)
    \/ \E g \in RuleGuilds, t \in ReqRuleTypes : delete_guild_automod_rule(g, t)

(***************************************************************************)
(* Report aggregator                                                       *)
(***************************************************************************)
Messages == {10}
Authors == {1, 2}
Reasons == {"spam", "abuse"}

MessageReporter == [author_id: Authors, reason: Reasons, original: BOOLEAN]

MessageReport ==
    [message_id: Messages, channel_id: {20}, report_message_id: {30},
     reporter: [author_id: Authors, reason: Reasons, original: {FALSE}]]

IdleReport == [pc |-> "idle", guild_id |-> 0, payload |-> Null, id |-> 0, err |-> "ok"]

\* message_reports is unique per (guild_id, message_id).
ReportsOf(guild_id, message_id) ==
    {r \in reports : r.guild_id = guild_id /\ r.message_id = message_id}

\* The data model's key: an insert of a (guild_id, message_id) that a row holds fails.
UniqueReportIndexHit(guild_id, message_id) == ReportsOf(guild_id, message_id) # {}

\* The rows the arbiter index of ON CONFLICT (message_id, author_id) holds for a key.
ReporterConflicts(message_id, author_id) ==
    {r \in reporters : r.message_id = message_id /\ r.author_id = author_id}

ReporterRow(guild_id, message_id, author_id, reason, original) ==
    [guild_id |-> guild_id, message_id |-> message_id, author_id |-> author_id,
     reason |-> reason, original |-> original, reported_at |-> now]

\* The value of the columns dismissed and actioned that the INSERT does not name:
\* the disposition flags default to false (the data model).
DispositionDefault == FALSE

\* PUT /guilds/{guild_id}/reports, first statement (pool.fetchrow, autocommit):
\* INSERT INTO message_reports ... RETURNING id.
CreateReportInsert(p, guild_id, payload) ==
    /\ cr[p].pc = "idle"
    /\ report_seq <= MaxReportId
    /\ report_seq' = report_seq + 1
    /\ IF UniqueReportIndexHit(guild_id, payload.message_id)
       THEN /\ reports' = reports
            /\ cr' = [cr EXCEPT ![p] = [IdleReport EXCEPT !.pc = "done", !.guild_id = guild_id,
                                           !.payload = Some(payload),
                                           !.err = "UniqueViolation"]]
       ELSE /\ reports' = reports \cup
                          {[id |-> report_seq, guild_id |-> guild_id,
                            message_id |-> payload.message_id,
                            channel_id |-> payload.channel_id,
                            report_message_id |-> payload.report_message_id,
                            dismissed |-> DispositionDefault,
                            actioned |-> DispositionDefault]}
            /\ cr' = [cr EXCEPT ![p] = [IdleReport EXCEPT !.pc = "insert_reporter",
                                           !.guild_id = guild_id,
                                           !.payload = Some(payload), !.id = report_seq]]
    /\ UNCHANGED <<reporters, now, resp, automodVars, timerVars, infractionVars, guildVars>>

\* Second statement (pool.execute, autocommit, possibly on another connection):
\* INSERT INTO message_reporters (...) VALUES ($1, $2, $3, $4, True).
CreateReportReporter(p) ==
    /\ cr[p].pc = "insert_reporter"
    /\ now < MaxNow
    /\ LET payload == cr[p].payload[1]
       IN IF ReporterConflicts(payload.message_id, payload.reporter.author_id) # {}
          THEN /\ reporters' = reporters
               /\ now' = now
               /\ cr' = [cr EXCEPT ![p].pc = "done", ![p].err = "UniqueViolation"]
          ELSE /\ reporters' = reporters \cup
                                {ReporterRow(cr[p].guild_id, payload.message_id,
                                             payload.reporter.author_id,
                                             payload.reporter.reason, TRUE)}
               /\ now' = now + 1
               /\ cr' = [cr EXCEPT ![p].pc = "done", ![p].err = "ok"]
    /\ UNCHANGED <<reports, report_seq, resp, automodVars, timerVars, infractionVars, guildVars>>

CreateReportDone(p) ==
    /\ cr[p].pc = "done"
    /\ cr' = [cr EXCEPT ![p] = IdleReport]
    /\ UNCHANGED <<reports, reporters, report_seq, now, resp, automodVars, timerVars, infractionVars, guildVars>>

\* PUT /guilds/{guild_id}/reports/{message_id}/reporters: one statement,
\* INSERT ... ON CONFLICT (message_id, author_id) DO UPDATE SET reason = EXCLUDED.reason
\* RETURNING the row.
put_guild_message_reporter(guild_id, message_id, payload) ==
    LET old == ReporterConflicts(message_id, payload.author_id)
        new == IF old = {}
               THEN {ReporterRow(guild_id, message_id, payload.author_id,
                                 payload.reason, payload.original)}
               ELSE {[r EXCEPT !.reason = payload.reason] : r \in old}
    IN /\ old = {} => now < MaxNow
       /\ reporters' = (reporters \ old) \cup new
       /\ now' = IF old = {} THEN now + 1 ELSE now
       /\ resp' = [op |-> "addReporter", err |-> "ok", guild_id |-> guild_id,
                    row |-> CHOOSE r \in new : TRUE]
       /\ UNCHANGED <<reports, report_seq, cr, automodVars, timerVars, infractionVars, guildVars>>

NextReports ==
    \/ \E p \in ReportProcs, g \in Guilds, b \in MessageReport : CreateReportInsert(p, g, b)
    \/ \E p \in ReportProcs : CreateReportReporter(p)
    \/ \E p \in ReportProcs : CreateReportDone(p)
    \/ \E g \in Guilds, m \in Messages, b \in MessageReporter :
          put_guild_message_reporter(g, m, b)

(***************************************************************************)
(* Timer / reminder store                                                  *)
(***************************************************************************)
Users == {1, 2}
TimerProcs == {1}

\* The timers the model creates: a plain timer without extra, and reminders whose
\* extra carries the owner as a string.
TimerPayload ==
    [event: {"timer"}, expiry: {Null}, extra: {Null}]
    \cup [event: {"reminder"}, expiry: {Null, Some(3)},
          extra: {Some([author |-> a, reminder_text |-> "a"]) : a \in {"1", "2"}}]

PatchableUserReminder == [reminder_text: {Null, Some("b")}, expiry: {Null, Some(5)}]

\* str(user_id)
Str(user_id) == ToString(user_id)

\* event = 'reminder' AND extra ->> 'author' = $n
\* (IsAnyReminder: the condition without its author conjunct.)
IsAnyReminder(t, author) == t.event = "reminder"
IsReminderOf(t, author) ==
    t.event = "reminder" /\ t.extra # Null /\ t.extra[1].author = author

IdleEdit == [pc |-> "idle", user_id |-> 0, reminder_id |-> 0, patch |-> Null, err |-> "ok"]

\* PUT /timers: INSERT ... RETURNING *
create_new_timer(payload) ==
    /\ timer_seq <= MaxTimerId
    /\ LET row == [id |-> timer_seq, event |-> payload.event, expiry |-> payload.expiry,
                   extra |-> payload.extra]
       IN /\ timers' = timers \cup {row}
          /\ resp' = [op |-> "createTimer", err |-> "ok", row |-> row]
    /\ timer_seq' = timer_seq + 1
    /\ UNCHANGED <<er, automodVars, reportVars, infractionVars, guildVars>>

\* GET /users/{user_id}/reminders/{reminder_id}
get_user_reminder(user_id, reminder_id) ==
    LET found == {t \in timers : t.id = reminder_id /\ IsReminderOf(t, Str(user_id))}
    IN /\ resp' = IF found = {}
                  THEN [op |-> "getReminder", err |-> "NotFound", user_id |-> user_id]
                  ELSE [op |-> "getReminder", err |-> "ok", user_id |-> user_id,
                        row |-> CHOOSE t \in found : TRUE]
       /\ UNCHANGED <<timers, timer_seq, er, automodVars, reportVars, infractionVars, guildVars>>

\* PATCH /users/{user_id}/reminders/{reminder_id} arrives.
EditReminderStart(p, user_id, reminder_id, patch) ==
    /\ er[p].pc = "idle"
    /\ er' = [er EXCEPT ![p] = [IdleEdit EXCEPT
                 !.pc = IF patch.reminder_text # Null THEN "text"
                        ELSE IF patch.expiry # Null THEN "expiry" ELSE "done",
                 !.user_id = user_id, !.reminder_id = reminder_id, !.patch = Some(patch)]]
    /\ UNCHANGED <<timers, timer_seq, resp, automodVars, reportVars, infractionVars, guildVars>>

\* UPDATE timers SET extra = jsonb_set(extra, '{reminder_text}', $1)
\* WHERE id=$2 AND event = 'reminder' AND extra ->> 'author' = $3
EditReminderText(p) ==
    /\ er[p].pc = "text"
    /\ LET hit == {t \in timers : t.id = er[p].reminder_id
                                   /\ IsReminderOf(t, Str(er[p].user_id))}
           text == er[p].patch[1].reminder_text[1]
       IN /\ timers' = (timers \ hit) \cup
                          {[t EXCEPT !.extra = Some([t.extra[1] EXCEPT !.reminder_text = text])]
                             : t \in hit}
          /\ er' = IF hit = {}
                   THEN [er EXCEPT ![p].pc = "done", ![p].err = "NotFound"]
                   ELSE [er EXCEPT ![p].pc = IF er[p].patch[1].expiry # Null
                                             THEN "expiry" ELSE "done"]
    /\ UNCHANGED <<timer_seq, resp, automodVars, reportVars, infractionVars, guildVars>>

\* UPDATE timers SET expiry=$1 WHERE event = 'reminder' AND id=$2
EditReminderExpiry(p) ==
    /\ er[p].pc = "expiry"
    /\ LET hit == {t \in timers : t.event = "reminder" /\ t.id = er[p].reminder_id}
       IN /\ timers' = (timers \ hit) \cup
                          {[t EXCEPT !.expiry = er[p].patch[1].expiry] : t \in hit}
          /\ er' = [er EXCEPT ![p].pc = "done",
                              ![p].err = IF hit = {} THEN "NotFound" ELSE "ok"]
    /\ UNCHANGED <<timer_seq, resp, automodVars, reportVars, infractionVars, guildVars>>

EditReminderDone(p) ==
    /\ er[p].pc = "done"
    /\ er' = [er EXCEPT ![p] = IdleEdit]
    /\ UNCHANGED <<timers, timer_seq, resp, automodVars, reportVars, infractionVars, guildVars>>

\* DELETE /users/{user_id}/reminders/{reminder_id}
delete_user_reminder(user_id, reminder_id) ==
    LET hit == {t \in timers : t.id = reminder_id /\ IsReminderOf(t, Str(user_id))}
    IN /\ timers' = timers \ hit
       /\ resp' = [op |-> "deleteReminder", user_id |-> user_id,
                    err |-> IF hit = {} THEN "NotFound" ELSE "ok"]
       /\ UNCHANGED <<timer_seq, er, automodVars, reportVars, infractionVars, guildVars>>

\* DELETE /users/{user_id}/reminders ... RETURNING id
bulk_delete_user_reminders(user_id) ==
    LET hit == {t \in timers : IsReminderOf(t, Str(user_id))}
    IN /\ timers' = timers \ hit
       /\ resp' = [op |-> "bulkDeleteReminders", user_id |-> user_id, err |-> "ok",
                    ids |-> {t.id : t \in hit}]
       /\ UNCHANGED <<timer_seq, er, automodVars, reportVars, infractionVars, guildVars>>

NextTimers ==
    \/ \E b \in TimerPayload : create_new_timer(b)
    \/ \E u \in Users, id \in 1..MaxTimerId : get_user_reminder(u, id)
    \/ \E p \in TimerProcs, u \in Users, id \in 1..MaxTimerId, b \in PatchableUserReminder :
          EditReminderStart(p, u, id, b)
    \/ \E p \in TimerProcs : EditReminderText(p)
    \/ \E p \in TimerProcs : EditReminderExpiry(p)
    \/ \E p \in TimerProcs : EditReminderDone(p)
    \/ \E u \in Users, id \in 1..MaxTimerId : delete_user_reminder(u, id)
    \/ \E u \in Users : bulk_delete_user_reminders(u)

\* The creations and the two deletions alone.
NextTimerDelete ==
    \/ \E b \in TimerPayload : create_new_timer(b)
    \/ \E u \in Users, id \in 1..MaxTimerId : delete_user_reminder(u, id)
    \/ \E u \in Users : bulk_delete_user_reminders(u)

(***************************************************************************)
(* Update-fragment builder and partial updates                             *)
(***************************************************************************)
\* (LastEnumerateIndex: the builder returning the last index enumerate gave, the
\* loop without its `idx += 1`.)
LastEnumerateIndex(columns) ==
    LET n == Len(columns)
        builder == [i \in 1..n |-> [col |-> columns[i], ph |-> (i - 1) + 1]]
        idx == IF n = 0 THEN 0 ELSE n - 1
    IN <<idx, builder>>

\* build_update_query(columns): <<idx, fragment>>; the fragment is the list of
\* "col=$n" items, each kept as [col, ph].  idx is the loop variable after the loop:
\* one more than the last index enumerate gave, or the initial 0 for no columns.
build_update_query(columns) ==
    LET n == Len(columns)
        builder == [i \in 1..n |-> [col |-> columns[i], ph |-> (i - 1) + 1]]
        idx == IF n = 0 THEN 0 ELSE (n - 1) + 1
    IN <<idx, builder>>

\* The column names the two patch handlers append, and the lists they can pass.
MaxColumns == 3
ColumnNames == {"reason", "target_id", "moderator_id", "actioned", "dismissed"}
ColumnLists == UNION {[1..n -> ColumnNames] : n \in 0..MaxColumns}

\* The value a patch body supplies for `col`, and the two keys of the path.
ValueOf(col) == [value_of |-> col]

\* The statement a patch handler sends for `columns`:
\* UPDATE ... SET {update_query} WHERE guild_id=${idx + 1} AND <key>=${idx + 2},
\* executed with the arguments (*data, guild_id, key).
UpdateStatement(columns) ==
    LET built == build_update_query(columns)
        idx == built[1]
        data == [i \in 1..Len(columns) |-> ValueOf(columns[i])]
    IN [op |-> "updateStatement", columns |-> columns, idx |-> idx,
        set |-> built[2],
        where |-> <<[col |-> "guild_id", ph |-> idx + 1], [col |-> "key", ph |-> idx + 2]>>,
        args |-> data \o <<ValueOf("guild_id"), ValueOf("key")>>]

\* A patch handler has collected `columns` and builds its statement.
BuildUpdateStatement ==
    /\ resp.op = "patchColumns"
    /\ resp' = UpdateStatement(resp.columns)
    /\ UNCHANGED <<automodVars, reportVars, timerVars, infractionVars, guildVars>>

NextBuilder == BuildUpdateStatement

\* What the database answers to UPDATE <table> SET <fragment> WHERE ...: an empty SET
\* list is a syntax error, a column the table does not have is an undefined column.
UpdateError(table_columns, fragment) ==
    IF Len(fragment) = 0 THEN "SyntaxError"
    ELSE IF \E i \in 1..Len(fragment) : fragment[i].col \notin table_columns
         THEN "UndefinedColumn"
         ELSE "ok"

\* The row after SET fragment with the positional arguments `args`.
UpdatedRow(row, fragment, args) ==
    [f \in DOMAIN row |->
        IF \E i \in 1..Len(fragment) : fragment[i].col = f
        THEN args[(CHOOSE i \in 1..Len(fragment) : fragment[i].col = f)]
        ELSE row[f]]

(***************************************************************************)
(* Infraction ledger                                                       *)
(***************************************************************************)
REASON_LIMIT == 2000

\* The columns the handlers' INSERT and SELECT statements name.
InfractionColumns == {"id", "guild_id", "user_id", "moderator_id", "action", "reason",
                      "created_at", "expiry", "extra"}

\* A string of n copies of s.
RECURSIVE Repeat(_, _)
Repeat(s, n) ==
    IF n = 0 THEN ""
    ELSE IF n % 2 = 1 THEN s \o Repeat(s, n - 1)
    ELSE LET half == Repeat(s, n \div 2) IN half \o half

\* A reason one character longer than the limit.
LongReason == Repeat("x", REASON_LIMIT + 1)

\* What a JSON body can carry for a datetime field: a string or a number, here for
\* the instant `at`.
JsonDatetimes == {[json |-> "string", at |-> 1], [json |-> "number", at |-> 1]}

\* The body of PUT /guilds/{guild_id}/infractions.
Infraction ==
    [guild_id: Guilds, target_id: {7}, moderator_id: {8}, action: {1},
     reason: {"spam", LongReason}, created_at: JsonDatetimes, expiry: {2},
     active: BOOLEAN, extra: {<<>>}]

\* Infraction.dt_validator runs before created_at is parsed (pre=True), on the raw
\* JSON value: value.replace(tzinfo=timezone.utc).  str.replace takes no keyword
\* arguments (TypeError, which the model validation reports as a validation error);
\* a number has no replace attribute (AttributeError, which nothing catches).
infraction_dt_validator(value) ==
    IF value.json = "string" THEN "ValidationError" ELSE "AttributeError"

PatchableInfraction ==
    [target_id: {Null, Some(9)}, moderator_id: {Null, Some(6)},
     reason: {Null, Some(""), Some("edited"), Some(LongReason)},
     active: {Null, Some(FALSE)}]

\* PUT /guilds/{guild_id}/infractions
create_guild_infraction(guild_id, infraction) ==
    /\ IF infraction_dt_validator(infraction.created_at) # "ok"
       THEN /\ resp' = [op |-> "createInfraction", sql |-> 0,
                         err |-> infraction_dt_validator(infraction.created_at)]
            /\ UNCHANGED <<infractions, inf_seq>>
       ELSE IF Len(infraction.reason) > REASON_LIMIT
       THEN /\ resp' = [op |-> "createInfraction", err |-> "BadRequest", sql |-> 0]
            /\ UNCHANGED <<infractions, inf_seq>>
       ELSE /\ inf_seq <= MaxInfractionId
            /\ infractions' = infractions \cup
                  {[id |-> inf_seq, guild_id |-> infraction.guild_id,
                    user_id |-> infraction.target_id,
                    moderator_id |-> infraction.moderator_id,
                    action |-> infraction.action, reason |-> infraction.reason,
                    created_at |-> infraction.created_at.at,
                    expiry |-> infraction.expiry,
                    extra |-> infraction.extra]}
            /\ inf_seq' = inf_seq + 1
            /\ resp' = [op |-> "createInfraction", err |-> "ok", sql |-> 1, id |-> inf_seq]
    /\ UNCHANGED <<automodVars, reportVars, timerVars, guildVars>>

\* serialize_infraction: the record as a dict with created_at and a non-null expiry
\* in ISO format, which the response carries as JSON strings.
serialize_infraction(record) ==
    [record EXCEPT !.created_at = [json |-> "string", at |-> record.created_at],
                   !.expiry = [json |-> "string", at |-> record.expiry]]

\* GET /guilds/{guild_id}/infractions/{inf_id}
get_guild_infraction_id(guild_id, inf_id) ==
    LET hit == {r \in infractions : r.guild_id = guild_id /\ r.id = inf_id}
    IN /\ resp' = IF hit = {}
                  THEN [op |-> "getInfraction", err |-> "NotFound", guild_id |-> guild_id,
                        id |-> inf_id]
                  ELSE [op |-> "getInfraction", err |-> "ok", guild_id |-> guild_id,
                        id |-> inf_id,
                        row |-> serialize_infraction(CHOOSE r \in hit : TRUE)]
       /\ UNCHANGED <<infractionVars, automodVars, reportVars, timerVars, guildVars>>

\* The columns and data lists the patch handler builds from the truthy fields.
InfractionPatchColumns(inf) ==
    (IF inf.reason # Null /\ inf.reason[1] # "" THEN <<"reason">> ELSE <<>>)
    \o (IF inf.target_id # Null /\ inf.target_id[1] # 0 THEN <<"target_id">> ELSE <<>>)
    \o (IF inf.moderator_id # Null /\ inf.moderator_id[1] # 0 THEN <<"moderator_id">> ELSE <<>>)

InfractionPatchData(inf) ==
    (IF inf.reason # Null /\ inf.reason[1] # "" THEN <<inf.reason[1]>> ELSE <<>>)
    \o (IF inf.target_id # Null /\ inf.target_id[1] # 0 THEN <<inf.target_id[1]>> ELSE <<>>)
    \o (IF inf.moderator_id # Null /\ inf.moderator_id[1] # 0
        THEN <<inf.moderator_id[1]>> ELSE <<>>)

\* PATCH /guilds/{guild_id}/infractions/{inf_id}
patch_guild_infraction(guild_id, inf_id, inf) ==
    LET columns == InfractionPatchColumns(inf)
        data == InfractionPatchData(inf)
        built == build_update_query(columns)
        dberr == UpdateError(InfractionColumns, built[2])
        hit == {r \in infractions : r.guild_id = guild_id /\ r.id = inf_id}
    IN /\ IF inf.reason # Null /\ inf.reason[1] # "" /\ Len(inf.reason[1]) > REASON_LIMIT
          THEN /\ resp' = [op |-> "patchInfraction", err |-> "BadRequest", sql |-> 0,
                            columns |-> columns]
               /\ infractions' = infractions
          ELSE IF dberr # "ok"
          THEN /\ resp' = [op |-> "patchInfraction", err |-> dberr, sql |-> 1,
                            columns |-> columns]
               /\ infractions' = infractions
          ELSE /\ infractions' = (infractions \ hit) \cup
                                   {UpdatedRow(r, built[2], data) : r \in hit}
               /\ resp' = [op |-> "patchInfraction", sql |-> 1, columns |-> columns,
                            err |-> IF hit = {} THEN "NotFound" ELSE "ok"]
       /\ UNCHANGED <<inf_seq, automodVars, reportVars, timerVars, guildVars>>

(***************************************************************************)
(* Infraction ledger: lists and deletions                                  *)
(***************************************************************************)
MaxLedgerId == 3

LedgerUsers == {7, 9}

\* A row of the infractions table, with the columns of the handlers' INSERT.
LedgerRow(id, guild_id, user_id) ==
    [id |-> id, guild_id |-> guild_id, user_id |-> user_id, moderator_id |-> 8,
     action |-> 1, reason |-> "spam", created_at |-> 1, expiry |-> 2, extra |-> <<>>]

\* The user of the seeded row `id`: the rows alternate between the two users.
LedgerUserOf(id) == IF id % 2 = 1 THEN 7 ELSE 9

\* The tables the service can find in its database when it starts: rows with
\* distinct ids, each under one guild.
Ledgers ==
    {{LedgerRow(id, f[id], LedgerUserOf(id)) : id \in DOMAIN f} :
        f \in UNION {[S -> Guilds] : S \in SUBSET (1..MaxLedgerId)}}

\* ORDER BY id DESC, the rows from the highest id to the lowest.
RECURSIVE OrderByIdDesc(_)
OrderByIdDesc(rows) ==
    IF rows = {} THEN <<>>
    ELSE LET first == CHOOSE r \in rows : \A o \in rows : r.id >= o.id
         IN <<first>> \o OrderByIdDesc(rows \ {first})

\* ORDER BY id ASC: the selected rows as a list, from the lowest id to the highest.
RECURSIVE OrderByIdAsc(_)
OrderByIdAsc(rows) ==
    IF rows = {} THEN <<>>
    ELSE LET first == CHOOSE r \in rows : \A o \in rows : r.id <= o.id
         IN <<first>> \o OrderByIdAsc(rows \ {first})

\* list(map(serialize_infraction, records))
SerializedList(records) ==
    [i \in 1..Len(records) |-> serialize_infraction(records[i])]

\* GET /guilds/{guild_id}/infractions
get_guild_infractions(guild_id) ==
    LET record == OrderByIdAsc({r \in infractions : r.guild_id = guild_id})
    IN /\ resp' = [op |-> "listInfractions", guild_id |-> guild_id,
                    err |-> IF record = <<>> THEN "NotFound" ELSE "ok",
                    rows |-> SerializedList(record)]
       /\ UNCHANGED <<infractionVars, automodVars, reportVars, timerVars, guildVars>>

\* GET /guilds/{guild_id}/users/{member_id}/infractions
get_guild_user_infractions(guild_id, member_id) ==
    LET records == OrderByIdAsc({r \in infractions : r.guild_id = guild_id
                                                      /\ r.user_id = member_id})
    IN /\ resp' = [op |-> "listUserInfractions", guild_id |-> guild_id,
                    user_id |-> member_id,
                    err |-> IF records = <<>> THEN "NotFound" ELSE "ok",
                    rows |-> SerializedList(records)]
       /\ UNCHANGED <<infractionVars, automodVars, reportVars, timerVars, guildVars>>

\* (InfractionWithId: the same condition without its guild, WHERE id=$2.)
InfractionWithId(guild_id, inf_id) == {r \in infractions : r.id = inf_id}

\* DELETE FROM infractions WHERE guild_id=$1 AND id=$2: the rows it deletes.
DeletedInfraction(guild_id, inf_id) ==
    {r \in infractions : r.guild_id = guild_id /\ r.id = inf_id}

\* DELETE /guilds/{guild_id}/infractions/{inf_id}
delete_guild_infraction(guild_id, inf_id) ==
    LET deleted == DeletedInfraction(guild_id, inf_id)
    IN /\ infractions' = infractions \ deleted
       /\ resp' = [op |-> "deleteInfraction", guild_id |-> guild_id, id |-> inf_id,
                    err |-> IF deleted = {} THEN "NotFound" ELSE "ok"]
       /\ UNCHANGED <<inf_seq, automodVars, reportVars, timerVars, guildVars>>

\* DELETE /guilds/{guild_id}/users/{user_id}/infractions
delete_guild_user_infractions(guild_id, user_id) ==
    LET deleted == {r \in infractions : r.guild_id = guild_id /\ r.user_id = user_id}
    IN /\ infractions' = infractions \ deleted
       /\ resp' = [op |-> "deleteUserInfractions", guild_id |-> guild_id,
                    user_id |-> user_id,
                    err |-> IF deleted = {} THEN "NotFound" ELSE "ok"]
       /\ UNCHANGED <<inf_seq, automodVars, reportVars, timerVars, guildVars>>

\* The create and patch bodies sent to a ledger that holds rows.
LedgerCreates == {b \in Infraction : b.reason = "spam" /\ b.active}
LedgerPatches ==
    {[target_id |-> Null, moderator_id |-> Null, reason |-> Some("edited"), active |-> Null],
     [target_id |-> Some(9), moderator_id |-> Null, reason |-> Null, active |-> Null]}

\* The creations, lists and deletions on a ledger that holds rows.
NextLedger ==
    \/ \E g \in Guilds, b \in LedgerCreates : create_guild_infraction(g, b)
    \/ \E g \in Guilds : get_guild_infractions(g)
    \/ \E g \in Guilds, u \in LedgerUsers : get_guild_user_infractions(g, u)
    \/ \E g \in Guilds, id \in 1..MaxLedgerId : delete_guild_infraction(g, id)
    \/ \E g \in Guilds, u \in LedgerUsers : delete_guild_user_infractions(g, u)

\* The reads by id, partial updates and deletions on a ledger that holds rows.
NextLedgerScope ==
    \/ \E g \in Guilds, id \in 1..MaxLedgerId : get_guild_infraction_id(g, id)
    \/ \E g \in Guilds, id \in 1..MaxLedgerId, b \in LedgerPatches :
          patch_guild_infraction(g, id, b)
    \/ \E g \in Guilds, id \in 1..MaxLedgerId : delete_guild_infraction(g, id)
    \/ \E g \in Guilds, u \in LedgerUsers : delete_guild_user_infractions(g, u)

(***************************************************************************)
(* Report disposition patch                                                *)
(***************************************************************************)
ReportColumns == {"id", "guild_id", "message_id", "channel_id", "report_message_id",
                  "dismissed", "actioned"}

PatchableMessageReport == [dismissed: {Null, Some(TRUE), Some(FALSE)},
                           actioned: {Null, Some(TRUE), Some(FALSE)}]

\* (SuppliedTrueColumns: the columns of the flags that are supplied and true,
\* `if report.actioned:` in place of `if report.actioned is not None:`.)
SuppliedTrueColumns(report) ==
    (IF report.actioned = Some(TRUE) THEN <<"actioned">> ELSE <<>>)
    \o (IF report.dismissed = Some(TRUE) THEN <<"dismissed">> ELSE <<>>)

ReportPatchColumns(report) ==
    (IF report.actioned # Null THEN <<"actioned">> ELSE <<>>)
    \o (IF report.dismissed # Null THEN <<"dismissed">> ELSE <<>>)

ReportPatchData(report) ==
    (IF report.actioned # Null THEN <<report.actioned[1]>> ELSE <<>>)
    \o (IF report.dismissed # Null THEN <<report.dismissed[1]>> ELSE <<>>)

\* PATCH /guilds/{guild_id}/reports/{message_id}
edit_guild_message_report(guild_id, message_id, report) ==
    LET columns == ReportPatchColumns(report)
        data == ReportPatchData(report)
        built == build_update_query(columns)
        dberr == UpdateError(ReportColumns, built[2])
        hit == ReportsOf(guild_id, message_id)
    IN /\ IF data = <<>>
          THEN /\ resp' = [op |-> "patchReport", err |-> "BadRequest", sql |-> 0,
                            columns |-> columns]
               /\ reports' = reports
          ELSE IF dberr # "ok"
          THEN /\ resp' = [op |-> "patchReport", err |-> dberr, sql |-> 1,
                            columns |-> columns]
               /\ reports' = reports
          ELSE /\ reports' = (reports \ hit) \cup
                               {UpdatedRow(r, built[2], data) : r \in hit}
               /\ resp' = [op |-> "patchReport", sql |-> 1, columns |-> columns,
                            err |-> IF hit = {} THEN "NotFound" ELSE "ok"]
       /\ UNCHANGED <<reporters, report_seq, now, cr, automodVars, timerVars, infractionVars, guildVars>>

\* The reports created for the partial updates to work on.
PatchSeedReport ==
    {b \in MessageReport : b.reporter.author_id = 1 /\ b.reporter.reason = "spam"}

\* The creations, reads and partial updates of infractions and of reports.
NextPatch ==
    \/ \E g \in Guilds, b \in Infraction : create_guild_infraction(g, b)
    \/ \E g \in Guilds, id \in 1..MaxInfractionId, b \in PatchableInfraction :
          patch_guild_infraction(g, id, b)
    \/ \E g \in Guilds, id \in 1..MaxInfractionId : get_guild_infraction_id(g, id)
    \/ \E p \in ReportProcs, g \in Guilds, b \in PatchSeedReport : CreateReportInsert(p, g, b)
    \/ \E p \in ReportProcs : CreateReportReporter(p)
    \/ \E p \in ReportProcs : CreateReportDone(p)
    \/ \E g \in Guilds, m \in Messages, b \in PatchableMessageReport :
          edit_guild_message_report(g, m, b)

\* The creations and the partial updates of reports alone.
NextReportPatch ==
    \/ \E p \in ReportProcs, g \in Guilds, b \in PatchSeedReport : CreateReportInsert(p, g, b)
    \/ \E p \in ReportProcs : CreateReportReporter(p)
    \/ \E p \in ReportProcs : CreateReportDone(p)
    \/ \E g \in Guilds, m \in Messages, b \in PatchableMessageReport :
          edit_guild_message_report(g, m, b)

(***************************************************************************)
(* Guild registry                                                          *)
(***************************************************************************)
GuildNames == {"lounge", "arcade"}
GuildOwners == {1, 2}

\* The body of PUT /guilds/{guild_id}.  left_at is absent (Null) or carries the
\* JSON string the caller sent for it.
GuildPayload ==
    [name: GuildNames, owner_id: GuildOwners,
     left_at: {Null, Some("2024-01-01T00:00:00")}]

\* GuildPayload.dt_validator runs before the field is parsed (pre=True): a falsy
\* value passes through; on the raw JSON string it calls value.replace(tzinfo=...),
\* and str.replace takes no keyword arguments: TypeError, a validation error.
guild_dt_validator(value) == IF value = Null THEN "ok" ELSE "TypeError"

GuildOf(guild_id) == {r \in guilds : r.id = guild_id}

\* (UpdateNameOnly: the clause with its first assignment alone, as the first of
\* two statements that write name and owner_id one after the other.)
UpdateNameOnly(old, guild) == [old EXCEPT !.name = guild.name, !.left_at = Null]

\* ON CONFLICT (id) DO UPDATE SET name = EXCLUDED.name, owner_id = EXCLUDED.owner_id,
\* left_at = NULL.  (KeepLeftAt: the same clause without its last assignment.)
KeepLeftAt(old, guild) ==
    [old EXCEPT !.name = guild.name, !.owner_id = guild.owner_id]
GuildOnConflictUpdate(old, guild) ==
    [old EXCEPT !.name = guild.name, !.owner_id = guild.owner_id, !.left_at = Null]

\* The table after INSERT INTO guilds (id, name, owner_id) ... ON CONFLICT (id) DO
\* UPDATE ...: the insert names id, name and owner_id; the nullable left_at of a new
\* row is NULL.
GuildUpsert(guild_id, guild) ==
    IF GuildOf(guild_id) = {}
    THEN guilds \cup {[id |-> guild_id, name |-> guild.name,
                        owner_id |-> guild.owner_id, left_at |-> Null]}
    ELSE (guilds \ GuildOf(guild_id))
         \cup {GuildOnConflictUpdate(r, guild) : r \in GuildOf(guild_id)}

\* PUT /guilds/{guild_id}: one INSERT ... ON CONFLICT statement.
create_guild(guild_id, guild) ==
    /\ IF guild_dt_validator(guild.left_at) # "ok"
       THEN /\ guilds' = guilds
            /\ resp' = [op |-> "upsertGuild", err |-> "ValidationError",
                         guild_id |-> guild_id]
       ELSE /\ guilds' = GuildUpsert(guild_id, guild)
            /\ resp' = [op |-> "upsertGuild", err |-> "ok", guild_id |-> guild_id]
    /\ UNCHANGED <<guild_config, guild_automod_config, gq, automodVars, reportVars,
                   timerVars, infractionVars>>

\* DELETE /guilds/{guild_id}/leave: UPDATE guilds SET left_at = NOW() WHERE id=$1.
\* The status of the statement is not looked at; the clock has moved on by any amount
\* since it was last read.
mark_guild_leave(guild_id) ==
    \E t \in now..MaxNow :
        /\ now' = t
        /\ guilds' = (guilds \ GuildOf(guild_id))
                      \cup {[r EXCEPT !.left_at = Some(t)] : r \in GuildOf(guild_id)}
        /\ resp' = [op |-> "markLeft", err |-> "ok", guild_id |-> guild_id]
        /\ UNCHANGED <<reports, reporters, report_seq, cr, guild_config, gq,
                       guild_automod_config, automodVars, timerVars, infractionVars>>

\* GET /guilds/{guild_id}
get_guild(guild_id) ==
    /\ resp' = IF GuildOf(guild_id) = {}
               THEN [op |-> "getGuild", err |-> "NotFound", guild_id |-> guild_id]
               ELSE [op |-> "getGuild", err |-> "ok", guild_id |-> guild_id,
                     row |-> CHOOSE r \in GuildOf(guild_id) : TRUE]
    /\ UNCHANGED <<guildVars, automodVars, reportVars, timerVars, infractionVars>>

NextGuilds ==
    \/ \E g \in Guilds, b \in GuildPayload : create_guild(g, b)
    \/ \E g \in Guilds : mark_guild_leave(g)
    \/ \E g \in Guilds : get_guild(g)

\* Upserts in flight.  Each client sends its own body, to any guild; the request is
\* validated when it arrives and its statement runs when the pool has a connection
\* for it, so the statements of requests in flight run in any order.
IdleUpsert == [pc |-> "idle", guild_id |-> 0, guild |-> Null]

ClientPayload(p) ==
    IF p = 1 THEN [name |-> "lounge", owner_id |-> 1, left_at |-> Null]
    ELSE [name |-> "arcade", owner_id |-> 2, left_at |-> Null]

UpsertArrive(p, guild_id) ==
    /\ gq[p].pc = "idle"
    /\ guild_dt_validator(ClientPayload(p).left_at) = "ok"
    /\ gq' = [gq EXCEPT ![p] = [pc |-> "execute", guild_id |-> guild_id,
                                 guild |-> Some(ClientPayload(p))]]
    /\ UNCHANGED <<guilds, guild_config, guild_automod_config, resp, automodVars,
                   reportVars, timerVars, infractionVars>>

\* await request.app.pool.execute(query, guild_id, guild.name, guild.owner_id)
UpsertExecute(p) ==
    /\ gq[p].pc = "execute"
    /\ guilds' = GuildUpsert(gq[p].guild_id, gq[p].guild[1])
    /\ gq' = [gq EXCEPT ![p].pc = "done"]
    /\ resp' = [op |-> "upsertGuild", err |-> "ok", guild_id |-> gq[p].guild_id]
    /\ UNCHANGED <<guild_config, guild_automod_config, automodVars, reportVars,
                   timerVars, infractionVars>>

\* The response has been sent; the client sends its next request.
UpsertDone(p) ==
    /\ gq[p].pc = "done"
    /\ gq' = [gq EXCEPT ![p] = IdleUpsert]
    /\ UNCHANGED <<guilds, guild_config, guild_automod_config, resp, automodVars,
                   reportVars, timerVars, infractionVars>>

NextUpserts ==
    \/ \E p \in Procs, g \in Guilds : UpsertArrive(p, g)
    \/ \E p \in Procs : UpsertExecute(p)
    \/ \E p \in Procs : UpsertDone(p)
    \/ \E g \in Guilds : get_guild(g)

(***************************************************************************)
(* Guild configuration: command prefixes                                   *)
(***************************************************************************)
\* The bodies of PUT /guilds/{guild_id}/prefixes: absent (None), the empty list, or
\* an ordered list of prefixes.
PrefixBodies == {Null, Some(<<>>), Some(<<"!">>), Some(<<"!", "?">>), Some(<<"?", "!">>)}

\* The guilds whose configuration the requests address.
ConfigGuilds == {1, 2, 3}

ConfigOf(guild_id) == {r \in guild_config : r.guild_id = guild_id}

\* `not prefixes`: None and the empty list are falsy.
NoPrefixes(prefixes) == prefixes = Null \/ prefixes[1] = <<>>

\* What UPDATE guild_config SET prefixes = NULL stores in the column.
\* (EmptyArray: the same statement storing the empty array it was given.)
EmptyArray == Some(<<>>)
ClearedPrefixes == Null

\* PUT /guilds/{guild_id}/prefixes
put_guild_prefixes(guild_id, prefixes) ==
    /\ IF NoPrefixes(prefixes)
       THEN /\ guild_config' = (guild_config \ ConfigOf(guild_id))
                    \cup {[r EXCEPT !.prefixes = ClearedPrefixes] : r \in ConfigOf(guild_id)}
            /\ resp' = [op |-> "setPrefixes", err |-> "ok", guild_id |-> guild_id,
                         prefixes |-> <<>>]
       ELSE /\ guild_config' =
                  IF ConfigOf(guild_id) = {}
                  THEN guild_config \cup {[guild_id |-> guild_id, prefixes |-> prefixes]}
                  ELSE (guild_config \ ConfigOf(guild_id))
                       \cup {[r EXCEPT !.prefixes = prefixes] : r \in ConfigOf(guild_id)}
            /\ resp' = [op |-> "setPrefixes", err |-> "ok", guild_id |-> guild_id,
                         prefixes |-> prefixes[1]]
    /\ UNCHANGED <<guilds, guild_automod_config, gq, automodVars, reportVars, timerVars,
                   infractionVars>>

\* GET /guilds/{guild_id}/prefixes: fetchval gives None when there is no row and
\* when the column is NULL; `not record` is also true of an empty array.
get_guild_prefixes(guild_id) ==
    LET found == {r \in ConfigOf(guild_id) : ~NoPrefixes(r.prefixes)}
    IN /\ resp' = IF found = {}
                  THEN [op |-> "getPrefixes", err |-> "NotFound", guild_id |-> guild_id]
                  ELSE [op |-> "getPrefixes", err |-> "ok", guild_id |-> guild_id,
                        prefixes |-> (CHOOSE r \in found : TRUE).prefixes[1]]
       /\ UNCHANGED <<guildVars, automodVars, reportVars, timerVars, infractionVars>>

NextConfig ==
    \/ \E g \in ConfigGuilds, b \in PrefixBodies : put_guild_prefixes(g, b)
    \/ \E g \in ConfigGuilds : get_guild_prefixes(g)

(***************************************************************************)
(* Automod configuration and the reads of the rule set                     *)
(***************************************************************************)
\* The bodies of PUT /guilds/{guild_id}/automod/ignores (default: the empty list).
IgnoreBodies == {<<>>, <<5, 6>>}

\* The slot that runs add-rule requests next to the configuration requests.
ConfigProcs == {1}

AutomodConfigOf(guild_id) == {c \in guild_automod_config : c.guild_id = guild_id}

\* The branch `if not ignores`: UPDATE guild_automod_config SET default_ignores=$2
\* WHERE guild_id=$1 with the empty list.  (UpsertEmptyIgnores: the upsert of the
\* other branch, run with the empty list.)
UpsertEmptyIgnores(guild_id) ==
    (guild_automod_config \ AutomodConfigOf(guild_id))
    \cup {[guild_id |-> guild_id, default_ignores |-> <<>>]}
UpdateEmptyIgnores(guild_id) ==
    (guild_automod_config \ AutomodConfigOf(guild_id))
    \cup {[c EXCEPT !.default_ignores = <<>>] : c \in AutomodConfigOf(guild_id)}

\* PUT /guilds/{guild_id}/automod/ignores
put_automod_default_ignores(guild_id, ignores) ==
    /\ IF ignores = <<>>
       THEN /\ guild_automod_config' = UpdateEmptyIgnores(guild_id)
            /\ resp' = [op |-> "setDefaultIgnores", err |-> "ok", guild_id |-> guild_id,
                         default_ignores |-> <<>>]
       ELSE /\ guild_automod_config' =
                  (guild_automod_config \ AutomodConfigOf(guild_id))
                  \cup {[guild_id |-> guild_id, default_ignores |-> ignores]}
            /\ resp' = [op |-> "setDefaultIgnores", err |-> "ok", guild_id |-> guild_id,
                         default_ignores |-> ignores]
    /\ UNCHANGED <<guilds, guild_config, gq, automodVars, reportVars, timerVars,
                   infractionVars>>

\* AutoModConfigResponse.convert_to_default: `v or []`.
convert_to_default(v) == IF Len(v) = 0 THEN <<>> ELSE v

\* The punishment row joined to a rule (LEFT OUTER JOIN ... ON rules.id =
\* punishment.id): the row, or NULL for a rule that has none.
\* (JoinedOnGuildId: the join written ON rules.guild_id = punishment.id.)
JoinedOnGuildId(rule) ==
    IF \E pn \in punishments : pn.id = rule.guild_id
    THEN Some(CHOOSE pn \in punishments : pn.id = rule.guild_id)
    ELSE Null
JoinedPunishment(rule) ==
    IF \E pn \in punishments : pn.id = rule.id
    THEN Some(CHOOSE pn \in punishments : pn.id = rule.id)
    ELSE Null

\* AutoModPunishmentModel read from a JSON object: type is required, duration is
\* optional, other keys (id) are dropped.  Null when the object does not validate.
AutoModPunishmentModel(object) ==
    IF "type" \in DOMAIN object
    THEN Some([type |-> object.type,
               duration |-> IF "duration" \in DOMAIN object THEN object.duration
                            ELSE Null])
    ELSE Null

\* One element of the `rules` aggregate of get_automod_config, as the response model
\* AutoModEventModel renders it.
AutoModEventResponse(rule) ==
    [guild_id |-> rule.guild_id, type |-> rule.type, count |-> rule.count,
     seconds |-> rule.seconds, ignores |-> rule.ignores,
     punishment |-> IF JoinedPunishment(rule) = Null THEN Null
                    ELSE AutoModPunishmentModel(JoinedPunishment(rule)[1])]

\* The response model validates every element: a punishment object must validate,
\* and check_punishment runs on every rule.
ConfigResponseValid(guild_id) ==
    \A rule \in {r \in rules : r.guild_id = guild_id} :
        /\ JoinedPunishment(rule) # Null
           => AutoModPunishmentModel(JoinedPunishment(rule)[1]) # Null
        /\ check_punishment(AutoModEventResponse(rule))

\* GET /guilds/{guild_id}/automod
get_automod_config(guild_id) ==
    /\ resp' =
          IF AutomodConfigOf(guild_id) = {}
          THEN [op |-> "getConfig", err |-> "NotFound", guild_id |-> guild_id]
          ELSE IF ~ConfigResponseValid(guild_id)
          THEN [op |-> "getConfig", err |-> "ResponseValidationError",
                guild_id |-> guild_id]
          ELSE [op |-> "getConfig", err |-> "ok", guild_id |-> guild_id,
                default_ignores |->
                    convert_to_default(
                        (CHOOSE c \in AutomodConfigOf(guild_id) : TRUE).default_ignores),
                rules |-> {AutoModEventResponse(r) :
                              r \in {x \in rules : x.guild_id = guild_id}}]
    /\ UNCHANGED <<guildVars, automodVars, reportVars, timerVars, infractionVars>>

\* COALESCE(to_jsonb(punishment) - 'id', '{}'::jsonb): the joined punishment row as
\* an object without its id key, or the object with no keys for a rule that has no
\* punishment row.
EmptyObject == [k \in {} |-> k]

PunishmentObject(rule) ==
    IF JoinedPunishment(rule) = Null
    THEN EmptyObject
    ELSE [type |-> JoinedPunishment(rule)[1].type,
          duration |-> JoinedPunishment(rule)[1].duration]

\* AutoModEventDBModel.from_record: parse_obj of the record.  The punishment of the
\* record is an object, never None, so it is validated as AutoModPunishmentModel;
\* then check_punishment runs.  Some(model), or Null when pydantic raises.
from_record(record) ==
    LET punishment == AutoModPunishmentModel(PunishmentObject(record))
        model == [id |-> record.id, guild_id |-> record.guild_id, type |-> record.type,
                  count |-> record.count, seconds |-> record.seconds,
                  ignores |-> record.ignores, punishment |-> punishment]
    IN IF punishment = Null \/ ~check_punishment(model) THEN Null ELSE Some(model)

\* GET /guilds/{guild_id}/automod/rules.  The ValidationError that from_record lets
\* out of the handler is handled by nothing ("ModelValidationError").
get_guild_automod_rules(guild_id) ==
    LET records == {r \in rules : r.guild_id = guild_id}
    IN /\ resp' =
             IF records = {}
             THEN [op |-> "getRules", err |-> "NotFound", guild_id |-> guild_id]
             ELSE IF \E r \in records : from_record(r) = Null
             THEN [op |-> "getRules", err |-> "ModelValidationError",
                   guild_id |-> guild_id]
             ELSE [op |-> "getRules", err |-> "ok", guild_id |-> guild_id,
                   rules |-> {from_record(r)[1] : r \in records}]
       /\ UNCHANGED <<guildVars, automodVars, reportVars, timerVars, infractionVars>>

\* The configuration requests and reads, next to add-rule requests that run one at a
\* time and rule deletions.  The rules are those of one guild; the configuration rows
\* and the reads are those of two.
ConfigSeedRules == {e \in AutoModEventModel : e.count = 5}

NextAutomodConfig ==
    \/ \E p \in ConfigProcs, g \in RuleGuilds, e \in ConfigSeedRules : AddRuleStart(p, g, e)
    \/ \E p \in ConfigProcs : AddRuleCheck(p)
    \/ \E p \in ConfigProcs : AddRuleInsertRule(p)
    \/ \E p \in ConfigProcs, ok \in BOOLEAN : AddRulePunishment(p, ok)
    \/ \E p \in ConfigProcs : AddRuleCommit(p)
    \/ \E p \in ConfigProcs : AddRuleDone(p)
    \/ \E g \in RuleGuilds, t \in ReqRuleTypes : delete_guild_automod_rule(g, t)
    \/ \E g \in Guilds, b \in IgnoreBodies : put_automod_default_ignores(g, b)
    \/ \E g \in Guilds : get_automod_config(g)
    \/ \E g \in Guilds : get_guild_automod_rules(g)

\* Add-rule requests that run one at a time, for the rules of two guilds, next to
\* the rule deletions.
NextRuleDelete ==
    \/ \E p \in ConfigProcs, g \in Guilds, e \in ConfigSeedRules : AddRuleStart(p, g, e)
    \/ \E p \in ConfigProcs : AddRuleCheck(p)
    \/ \E p \in ConfigProcs : AddRuleInsertRule(p)
    \/ \E p \in ConfigProcs, ok \in BOOLEAN : AddRulePunishment(p, ok)
    \/ \E p \in ConfigProcs : AddRuleCommit(p)
    \/ \E p \in ConfigProcs : AddRuleDone(p)
    \/ \E g \in Guilds, t \in ReqRuleTypes : delete_guild_automod_rule(g, t)

(***************************************************************************)
(* The API-key gate                                                        *)
(***************************************************************************)
\* config.keys: the one configured key.
keys == {"s3cret"}

\* The X-API-Key header of a request: absent, a key that is not configured, or the
\* configured key.
ApiKeyHeaders == {Null, Some("guess"), Some("s3cret")}

\* auth_key (APIKeyHeader) followed by validate_api_key.
validate_api_key(key) ==
    IF key = Null THEN "NotAuthenticated"
    ELSE IF key[1] \notin keys THEN "Unauthorized"
    ELSE "ok"

\* The routers setup_routers includes, and the dependencies each was built with.
Routers == {"guilds", "timers", "infractions", "config", "automod", "admin", "reports"}

RouterDependencies(router) ==
    IF router = "guilds" THEN {} ELSE {"validate_api_key"}

\* Everything the handlers store.
stored == <<automodVars, reportVars, timerVars, infractionVars, guildVars>>

\* A request with header `key` to a route of `router`: the dependencies of the router
\* run first and their exception is the answer; `handler` is the step of the route's
\* handler, taken when they pass.
Route(router, key, handler) ==
    IF "validate_api_key" \in RouterDependencies(router) /\ validate_api_key(key) # "ok"
    THEN /\ resp' = [op |-> "gate", err |-> validate_api_key(key), router |-> router]
         /\ UNCHANGED stored
    ELSE handler

\* The guild the requests to the gate address.
GateGuilds == {1}

\* Mutating routes of three routers, each requested with every header.
NextGate ==
    \E key \in ApiKeyHeaders :
        \/ \E g \in GateGuilds, b \in GuildPayload : Route("guilds", key, create_guild(g, b))
        \/ \E g \in GateGuilds : Route("guilds", key, mark_guild_leave(g))
        \/ \E g \in GateGuilds, b \in PrefixBodies :
              Route("config", key, put_guild_prefixes(g, b))
        \/ \E g \in GateGuilds, t \in ReqRuleTypes :
              Route("automod", key, delete_guild_automod_rule(g, t))

Init ==
    /\ rules = {}
    /\ punishments = {}
    /\ rule_seq = 1
    /\ ar = [p \in Procs |-> IdleReq]
    /\ reports = {}
    /\ reporters = {}
    /\ report_seq = 1
    /\ now = 1
    /\ cr = [p \in Procs |-> IdleReport]
    /\ timers = {}
    /\ timer_seq = 1
    /\ er = [p \in Procs |-> IdleEdit]
    /\ infractions = {}
    /\ inf_seq = 1
    /\ guilds = {}
    /\ guild_config = {}
    /\ guild_automod_config = {}
    /\ gq = [p \in Procs |-> IdleUpsert]
    /\ resp = NoResp

\* The service starts on a database whose infractions table holds rows already.
LedgerInit ==
    /\ rules = {}
    /\ punishments = {}
    /\ rule_seq = 1
    /\ ar = [p \in Procs |-> IdleReq]
    /\ reports = {}
    /\ reporters = {}
    /\ report_seq = 1
    /\ now = 1
    /\ cr = [p \in Procs |-> IdleReport]
    /\ timers = {}
    /\ timer_seq = 1
    /\ er = [p \in Procs |-> IdleEdit]
    /\ infractions \in Ledgers
    /\ inf_seq = MaxLedgerId + 1
    /\ guilds = {}
    /\ guild_config = {}
    /\ guild_automod_config = {}
    /\ gq = [p \in Procs |-> IdleUpsert]
    /\ resp = NoResp

\* A patch handler holds the list of columns of its request.
BuilderInit ==
    /\ rules = {}
    /\ punishments = {}
    /\ rule_seq = 1
    /\ ar = [p \in Procs |-> IdleReq]
    /\ reports = {}
    /\ reporters = {}
    /\ report_seq = 1
    /\ now = 1
    /\ cr = [p \in Procs |-> IdleReport]
    /\ timers = {}
    /\ timer_seq = 1
    /\ er = [p \in Procs |-> IdleEdit]
    /\ infractions = {}
    /\ inf_seq = 1
    /\ guilds = {}
    /\ guild_config = {}
    /\ guild_automod_config = {}
    /\ gq = [p \in Procs |-> IdleUpsert]
    /\ resp \in {[op |-> "patchColumns", columns |-> c] : c \in ColumnLists}

SpecAutomod == Init /\ [][NextAutomod]_vars
SpecReports == Init /\ [][NextReports]_vars
SpecTimers == Init /\ [][NextTimers]_vars
SpecTimerDelete == Init /\ [][NextTimerDelete]_vars
SpecRuleDelete == Init /\ [][NextRuleDelete]_vars
SpecPatch == Init /\ [][NextPatch]_vars
SpecReportPatch == Init /\ [][NextReportPatch]_vars
SpecLedger == LedgerInit /\ [][NextLedger]_vars
SpecLedgerScope == LedgerInit /\ [][NextLedgerScope]_vars
SpecBuilder == BuilderInit /\ [][NextBuilder]_vars
SpecGuilds == Init /\ [][NextGuilds]_vars
SpecUpserts == Init /\ [][NextUpserts]_vars
SpecConfig == Init /\ [][NextConfig]_vars
SpecGate == Init /\ [][NextGate]_vars
SpecAutomodConfig == Init /\ [][NextAutomodConfig]_vars

(***************************************************************************)
(* Properties of the automod rule engine                                   *)
(***************************************************************************)
Submitted(p) == ar[p].event # Null

StoredRule(id) == {r \in rules : r.id = id}
StoredPunishment(id) == {pn \in punishments : pn.id = id}

\* C1: an add-rule request whose type is auto-dehoist or auto-normalize and which
\* carries a punishment is rejected with a validation error, and no rule row and no
\* punishment row is written for it (inside a transaction or committed).
C1_ExemptTypeWithPunishmentRejected ==
    /\ \A p \in Procs :
          (Submitted(p) /\ ar[p].event[1].type \in {"auto-dehoist", "auto-normalize"}
                        /\ ar[p].event[1].punishment # Null)
          => /\ ar[p].pc = "done"
             /\ ar[p].err = "ValidationError"
             /\ ar[p].txRule = {} /\ ar[p].txPunishment = {}
    /\ \A r \in rules :
          r.type \in {"auto-dehoist", "auto-normalize"} => StoredPunishment(r.id) = {}

\* C2: an add-rule request whose type is not auto-dehoist/auto-normalize and which
\* carries no punishment is answered with a validation error without holding a
\* connection or having issued a statement, and the step that receives it leaves the
\* rule table, the punishment table and the id sequence unchanged.
MissingPunishment(req) ==
    /\ req.event # Null
    /\ req.event[1].type \notin {"auto-dehoist", "auto-normalize"}
    /\ req.event[1].punishment = Null

C2_MissingPunishmentRejected ==
    /\ [](\A p \in Procs :
            MissingPunishment(ar[p])
            => /\ ar[p].pc = "done" /\ ar[p].err = "ValidationError"
               /\ StatusOf(ar[p].err) \in 400..499
               /\ ~ar[p].conn /\ ar[p].rnum = 0
               /\ ar[p].txRule = {} /\ ar[p].txPunishment = {})
    /\ [][\A p \in Procs :
            (ar[p].pc = "idle" /\ MissingPunishment(ar'[p]))
            => (rules' = rules /\ punishments' = punishments /\ rule_seq' = rule_seq)]_vars

C2_Witness ==
    \E p \in Procs : MissingPunishment(ar[p]) /\ ar[p].pc = "done" /\ rules # {}

\* C4: at most one rule row is stored per (guild_id, type), and a request that ends
\* without creating the row because the pair is already taken (found by its existence
\* check, or refused by the insert) is answered 409.
C4_ConcurrentDuplicateIsConflict ==
    /\ \A g \in Guilds, t \in RuleTypes : Cardinality(ExistingRules(g, t)) <= 1
    /\ \A p \in Procs :
          (ar[p].pc = "done" /\ ar[p].err \in {"Conflict", "UniqueViolation"})
          => StatusOf(ar[p].err) = 409

\* C5: when a request's existence check runs while a rule with its (guild_id, type)
\* is stored, the request ends with 409 and that step changes neither table; and no
\* step of an add-rule request removes or alters a stored rule or punishment row.
C5_DuplicateIsConflictAndKeepsRow ==
    [][\A p \in Procs :
         ar'[p] # ar[p]
         => /\ rules \subseteq rules' /\ punishments \subseteq punishments'
            /\ (ar[p].pc = "check" /\ ExistingRules(ar[p].guild_id, ar[p].event[1].type) # {})
               => /\ ar'[p].pc = "done" /\ StatusOf(ar'[p].err) = 409
                  /\ rules' = rules /\ punishments' = punishments]_vars

C5_Witness ==
    \E p \in Procs :
        /\ ar[p].pc = "done" /\ ar[p].err = "Conflict"
        /\ \E r \in ExistingRules(ar[p].guild_id, ar[p].event[1].type) :
              r.count # ar[p].event[1].count /\ StoredPunishment(r.id) # {}

\* C6: the rule insert and the punishment insert are one atomic unit.  For a request
\* that carries a punishment and has inserted its rule (rnum is set): whenever the rule
\* row rnum is stored, the punishment row rnum is stored with the submitted type and
\* duration; and when the punishment insert failed, the rule row rnum is not stored.
\* Every stored rule of a type that requires a punishment has its punishment row.
C6_RuleAndPunishmentAtomic ==
    /\ \A p \in Procs :
          (Submitted(p) /\ ar[p].event[1].punishment # Null /\ ar[p].rnum # 0)
          => /\ StoredRule(ar[p].rnum) # {}
                => PunishmentRow(ar[p].rnum, ar[p].event[1].punishment[1]) \in punishments
             /\ ar[p].err = "DatabaseError" => StoredRule(ar[p].rnum) = {}
    /\ \A r \in rules :
          r.type \notin {"auto-dehoist", "auto-normalize"} => StoredPunishment(r.id) # {}

C6_Witness ==
    \E p \in Procs :
        /\ ar[p].pc = "done" /\ ar[p].err = "DatabaseError" /\ ar[p].rnum # 0
        /\ StoredRule(ar[p].rnum) = {}

\* C11: a punishment row exists exactly for the stored rules whose type requires one:
\* every punishment row has the id of a stored rule (none is left behind by a delete),
\* every stored rule of a type other than auto-dehoist/auto-normalize has a
\* punishment row, and no stored auto-dehoist/auto-normalize rule has one.
C11_PunishmentRowIffTypeRequiresIt ==
    /\ \A pn \in punishments : StoredRule(pn.id) # {}
    /\ \A r \in rules :
          StoredPunishment(r.id) # {} <=> r.type \notin {"auto-dehoist", "auto-normalize"}

(***************************************************************************)
(* Properties of the report aggregator                                     *)
(***************************************************************************)
ReportersOf(guild_id, message_id) ==
    {r \in reporters : r.guild_id = guild_id /\ r.message_id = message_id}

OriginalsOf(guild_id, message_id) ==
    {r \in ReportersOf(guild_id, message_id) : r.original}

\* C3: a report and its first reporter row persist as one atomic unit: every stored
\* report has an original reporter row (no state shows the report without it), and
\* when the reporter insert of a create request failed, the report row it inserted
\* is not stored.
C3_ReportAndReporterAtomic ==
    /\ \A r \in reports : OriginalsOf(r.guild_id, r.message_id) # {}
    /\ \A p \in Procs :
          (cr[p].pc = "done" /\ cr[p].err # "ok" /\ cr[p].id # 0)
          => ~(\E r \in reports : r.id = cr[p].id)

\* C9: every addReporter call (guild_id, message_id, payload) leaves exactly one
\* reporter row with the key (guild_id, message_id, payload.author_id), whose reason
\* is the payload's and whose original flag and reported_at are those of the row
\* that had the key before, if any; every reporter row with another key is unchanged.
C9_ReporterUpsertKeyedByGuildMessageAuthor ==
    [][\A g \in Guilds, m \in Messages, b \in MessageReporter :
         put_guild_message_reporter(g, m, b)
         => LET key(r) == r.guild_id = g /\ r.message_id = m /\ r.author_id = b.author_id
                before == {r \in reporters : key(r)}
                after == {r \in reporters' : key(r)}
            IN /\ Cardinality(after) = 1
               /\ \A r \in after :
                     /\ r.reason = b.reason
                     /\ \A o \in before : r.original = o.original
                                            /\ r.reported_at = o.reported_at
               /\ \A r \in reporters : ~key(r) => r \in reporters']_vars

\* C10: an addReporter call by an author who has not reported the message yet, made
\* when the message has a report with exactly one original reporter row, leaves that
\* row the only reporter row of the message with original = true, whatever the payload.
C10_ExactlyOneOriginalReporter ==
    [][\A g \in Guilds, m \in Messages, b \in MessageReporter :
         (/\ put_guild_message_reporter(g, m, b)
          /\ ReportsOf(g, m) # {}
          /\ Cardinality(OriginalsOf(g, m)) = 1
          /\ ReporterConflicts(m, b.author_id) = {})
         => {r \in reporters' : r.guild_id = g /\ r.message_id = m /\ r.original}
              = OriginalsOf(g, m)]_vars

(***************************************************************************)
(* Properties of the reminder store                                        *)
(***************************************************************************)
AuthorIs(t, user_id) == t.extra # Null /\ t.extra[1].author = Str(user_id)

\* The timers that are not user_id's are all still stored, unchanged, after the step.
OthersUntouched(user_id) ==
    \A t \in timers : ~AuthorIs(t, user_id) => t \in timers'

\* C8: no reminder operation issued for user u returns, modifies or deletes a timer
\* whose payload author is not the string form of u, and a patch that targets a
\* reminder of another user ends with NotFound.
C8_ReminderOpsConfinedToOwner ==
    [][/\ \A u \in Users, id \in 1..MaxTimerId :
            /\ get_user_reminder(u, id)
                  => (resp'.err = "ok" => AuthorIs(resp'.row, u))
            /\ delete_user_reminder(u, id) => OthersUntouched(u)
       /\ \A u \in Users : bulk_delete_user_reminders(u) => OthersUntouched(u)
       /\ \A p \in TimerProcs :
            (EditReminderText(p) \/ EditReminderExpiry(p))
            => /\ OthersUntouched(er[p].user_id)
               /\ (\E t \in timers : t.id = er[p].reminder_id
                                        /\ ~AuthorIs(t, er[p].user_id))
                  => (er'[p].pc = "done" /\ er'[p].err = "NotFound")]_vars

(***************************************************************************)
(* Properties of the partial updates                                       *)
(***************************************************************************)
\* C7: an infraction patch or a report patch that supplies none of its patchable
\* fields is answered with a client error (4xx) without a statement having been sent
\* to the database, and leaves the table unchanged.
C7_EmptyPatchRejectedBeforeSql ==
    [][/\ \A g \in Guilds, id \in 1..MaxInfractionId, b \in PatchableInfraction :
            (patch_guild_infraction(g, id, b)
             /\ b.reason = Null /\ b.target_id = Null /\ b.moderator_id = Null)
            => /\ StatusOf(resp'.err) \in 400..499
               /\ resp'.sql = 0
               /\ infractions' = infractions
       /\ \A g \in Guilds, m \in Messages, b \in PatchableMessageReport :
            (edit_guild_message_report(g, m, b) /\ b.dismissed = Null /\ b.actioned = Null)
            => /\ StatusOf(resp'.err) \in 400..499
               /\ resp'.sql = 0
               /\ reports' = reports]_vars

(***************************************************************************)
(* Properties of the guild registry                                        *)
(***************************************************************************)
\* C12: every accepted upsert of a guild id leaves exactly the row (id, name and
\* owner_id of that upsert, left_at null), whatever the row was before, so that a
\* second upsert with the same fields changes nothing; and every markLeft of a guild
\* id that has a row leaves that row with a non-null left_at.
C12_UpsertClearsLeftAtMarkLeftSetsIt ==
    [][/\ \A g \in Guilds, b \in GuildPayload :
            (create_guild(g, b) /\ resp'.err = "ok")
            => /\ {r \in guilds' : r.id = g}
                    = {[id |-> g, name |-> b.name, owner_id |-> b.owner_id,
                        left_at |-> Null]}
               /\ [id |-> g, name |-> b.name, owner_id |-> b.owner_id,
                    left_at |-> Null] \in guilds => guilds' = guilds
       /\ \A g \in Guilds :
            (mark_guild_leave(g) /\ GuildOf(g) # {})
            => /\ {r \in guilds' : r.id = g} # {}
               /\ \A r \in guilds' : r.id = g => r.left_at # Null]_vars

\* A guild that has left and another that was upserted after the clock had moved.
C12_Witness ==
    /\ resp.op = "upsertGuild" /\ resp.err = "ok"
    /\ \E r \in guilds : r.id = resp.guild_id /\ r.left_at = Null
    /\ \E r \in guilds : r.id # resp.guild_id /\ r.left_at # Null
    /\ now > 1
(***************************************************************************)
(* Properties of the infraction ledger                                     *)
(***************************************************************************)
\* What a get of (guild_id, inf_id) answers in the state after the step.
InfractionGot(guild_id, inf_id) ==
    {serialize_infraction(r) : r \in {i \in infractions' : i.guild_id = guild_id
                                                            /\ i.id = inf_id}}

SuppliesPatchableField(b) ==
    /\ \/ b.reason # Null /\ b.reason[1] # ""
       \/ b.target_id # Null
       \/ b.moderator_id # Null
    /\ b.reason # Null => Len(b.reason[1]) <= REASON_LIMIT

\* C14: a patch (guild_id, id, fields) that supplies at least one of reason,
\* target_id and moderator_id is answered NotFound and changes nothing when no
\* infraction has that id in that guild; otherwise it is answered 200, the
\* infraction then carries the supplied values in exactly the supplied fields and its
\* former values in every other field, and every other infraction is unchanged.
C14_PatchChangesExactlySuppliedFields ==
    [][\A g \in Guilds, id \in 1..MaxInfractionId, b \in PatchableInfraction :
         (patch_guild_infraction(g, id, b) /\ SuppliesPatchableField(b))
         => LET hit == {r \in infractions : r.guild_id = g /\ r.id = id}
            IN /\ hit = {} => (resp'.err = "NotFound" /\ infractions' = infractions)
               /\ hit # {} => resp'.err = "ok"
               /\ \A r \in hit :
                     [r EXCEPT
                        !.reason = IF b.reason # Null THEN b.reason[1] ELSE @,
                        !.user_id = IF b.target_id # Null THEN b.target_id[1] ELSE @,
                        !.moderator_id = IF b.moderator_id # Null
                                         THEN b.moderator_id[1] ELSE @] \in infractions'
               /\ \A r \in infractions \ hit : r \in infractions'
               /\ Cardinality(infractions') = Cardinality(infractions)]_vars
\* C15: every stored infraction has a reason of at most REASON_LIMIT characters, and
\* a create or a patch that carries a longer reason is answered 400 without a
\* statement having been sent to the database and leaves the ledger unchanged.
C15_ReasonWithinLimit ==
    /\ [](\A r \in infractions : Len(r.reason) <= REASON_LIMIT)
    /\ [][
          /\ \A g \in Guilds, b \in Infraction :
                (create_guild_infraction(g, b) /\ Len(b.reason) > REASON_LIMIT)
                => /\ StatusOf(resp'.err) = 400
                   /\ resp'.sql = 0
                   /\ infractions' = infractions
          /\ \A g \in Guilds, id \in 1..MaxInfractionId, b \in PatchableInfraction :
                (/\ patch_guild_infraction(g, id, b)
                 /\ b.reason # Null /\ Len(b.reason[1]) > REASON_LIMIT)
                => /\ StatusOf(resp'.err) = 400
                   /\ resp'.sql = 0
                   /\ infractions' = infractions
       ]_vars
(***************************************************************************)
(* Properties of the guild configuration                                   *)
(***************************************************************************)
\* C17: the prefixes column of every guild_config row is NULL or a non-empty list,
\* never the empty list.  A setPrefixes call with an absent or empty list is answered
\* 200 and creates no row (on a guild without a row it changes nothing); a call with
\* a non-empty list leaves exactly one row for the guild, holding that ordered list.
C17_PrefixesNullOrNonEmpty ==
    /\ [](\A r \in guild_config : r.prefixes = Null \/ Len(r.prefixes[1]) > 0)
    /\ [][
          \A g \in ConfigGuilds, b \in PrefixBodies :
             put_guild_prefixes(g, b)
             => /\ resp'.err = "ok"
                /\ NoPrefixes(b)
                   => /\ {r.guild_id : r \in guild_config'}
                           = {r.guild_id : r \in guild_config}
                      /\ ConfigOf(g) = {} => guild_config' = guild_config
                /\ ~NoPrefixes(b)
                   => {r \in guild_config' : r.guild_id = g}
                        = {[guild_id |-> g, prefixes |-> b]}
       ]_vars

\* A row whose prefixes were set and then cleared, next to a guild that has no row
\* and was just sent an empty list.
C17_Witness ==
    /\ resp.op = "setPrefixes" /\ resp.err = "ok" /\ resp.prefixes = <<>>
    /\ ConfigOf(resp.guild_id) = {}
    /\ \E r \in guild_config : r.prefixes = Null
    /\ \E r \in guild_config : r.prefixes # Null /\ Len(r.prefixes[1]) = 2
(***************************************************************************)
(* Properties of the API-key gate                                          *)
(***************************************************************************)
\* The request was answered 401 and nothing that is stored has changed.
Rejected401 == StatusOf(resp'.err) = 401 /\ stored' = stored

\* C16: a request to a mutating route (guild upsert, guild markLeft, setPrefixes,
\* deleteRule) that carries no X-API-Key header or a key that is not configured is
\* answered 401 and changes no stored state.
C16_MutatingRoutesNeedApiKey ==
    [][\A key \in ApiKeyHeaders :
         validate_api_key(key) # "ok"
         => /\ \A g \in GateGuilds, b \in GuildPayload :
                  Route("guilds", key, create_guild(g, b)) => Rejected401
            /\ \A g \in GateGuilds :
                  Route("guilds", key, mark_guild_leave(g)) => Rejected401
            /\ \A g \in GateGuilds, b \in PrefixBodies :
                  Route("config", key, put_guild_prefixes(g, b)) => Rejected401
            /\ \A g \in GateGuilds, t \in ReqRuleTypes :
                  Route("automod", key, delete_guild_automod_rule(g, t)) => Rejected401]_vars
(***************************************************************************)
(* Properties of the automod configuration and of the rule reads           *)
(***************************************************************************)
\* What a setDefaultIgnores step writes: an empty list creates no row and leaves
\* every row of the guild with default_ignores = [] and every other row as it was;
\* a non-empty list leaves exactly one row for the guild, holding that list, and
\* every other row as it was.
SetDefaultIgnoresWrites ==
    \A g \in Guilds, b \in IgnoreBodies :
        put_automod_default_ignores(g, b)
        => /\ resp'.err = "ok" /\ resp'.default_ignores = b
           /\ b = <<>>
              => guild_automod_config'
                   = {IF c.guild_id = g THEN [c EXCEPT !.default_ignores = <<>>] ELSE c :
                         c \in guild_automod_config}
           /\ b # <<>>
              => /\ {c \in guild_automod_config' : c.guild_id = g}
                      = {[guild_id |-> g, default_ignores |-> b]}
                 /\ {c \in guild_automod_config' : c.guild_id # g}
                      = {c \in guild_automod_config : c.guild_id # g}

\* The guild has no configuration row, or one whose default_ignores is empty.
NoIgnoresStored(g) == \A c \in AutomodConfigOf(g) : c.default_ignores = <<>>

\* C18: setDefaultIgnores with an empty list never creates a row and sets
\* default_ignores to [] on an existing one, a non-empty list upserts the row; and a
\* read of the automod configuration of a guild with no row and of a guild whose
\* row has empty default_ignores both answer ignores = [].
C18_MissingRowReadsAsEmptyIgnores ==
    [][/\ SetDefaultIgnoresWrites
       /\ \A g \in Guilds :
            (get_automod_config(g) /\ NoIgnoresStored(g))
            => (resp'.err = "ok" /\ resp'.default_ignores = <<>>)]_vars

\* C18, amended: the writes are as stated; a read of the automod configuration
\* answers NotFound for a guild with no row and ignores = [] for a guild whose row
\* has empty default_ignores.
C18_MissingRowReadsAsNotFound ==
    [][/\ SetDefaultIgnoresWrites
       /\ \A g \in Guilds :
            get_automod_config(g)
            => /\ AutomodConfigOf(g) = {} => resp'.err = "NotFound"
               /\ (AutomodConfigOf(g) # {} /\ NoIgnoresStored(g))
                  => (resp'.err = "ok" /\ resp'.default_ignores = <<>>)]_vars

\* An empty list was just sent for a guild that has no row and still has none, while
\* the row of another guild has been cleared to [].
C18_Witness ==
    /\ resp.op = "setDefaultIgnores" /\ resp.default_ignores = <<>>
    /\ AutomodConfigOf(resp.guild_id) = {}
    /\ \E c \in guild_automod_config : c.default_ignores = <<>>
\* A stored rule as a reader is to see it: its columns, and its punishment row
\* (type and duration) or null.
RuleWithPunishment(r) ==
    [guild_id |-> r.guild_id, type |-> r.type, count |-> r.count, seconds |-> r.seconds,
     ignores |-> r.ignores,
     punishment |-> IF StoredPunishment(r.id) = {} THEN Null
                    ELSE LET pn == CHOOSE x \in StoredPunishment(r.id) : TRUE
                         IN Some([type |-> pn.type, duration |-> pn.duration])]

\* C19: getConfig answers NotFound exactly when the guild has no automod config row;
\* otherwise it answers 200 with the default_ignores of the row and exactly the rules
\* stored for the guild, one element per rule, each with its punishment or null.  No
\* step of an add-rule request writes a config row, so a successful addRule does not
\* make getConfig succeed.
C19_GetConfigNotFoundIffNoConfigRow ==
    [][/\ \A g \in Guilds :
            get_automod_config(g)
            => LET stored_rules == {r \in rules : r.guild_id = g}
               IN /\ resp'.err = "NotFound" <=> AutomodConfigOf(g) = {}
                  /\ AutomodConfigOf(g) # {}
                     => /\ resp'.err = "ok"
                        /\ \E c \in AutomodConfigOf(g) :
                              resp'.default_ignores = c.default_ignores
                        /\ resp'.rules = {RuleWithPunishment(r) : r \in stored_rules}
                        /\ Cardinality(resp'.rules) = Cardinality(stored_rules)
       /\ \A p \in ConfigProcs :
            ar'[p] # ar[p] => guild_automod_config' = guild_automod_config]_vars

\* A read that returned two rules, one with its punishment and one with null.
C19_Witness ==
    /\ resp.op = "getConfig" /\ resp.err = "ok"
    /\ \E a \in resp.rules, b \in resp.rules : a.punishment = Null /\ b.punishment # Null
\* C20: for a guild that has at least one stored rule, the list of its rules is
\* answered 200 with one element per stored rule, a rule without a punishment row
\* (auto-dehoist, auto-normalize) among them with an empty punishment; it is answered
\* 404 exactly when the guild has no stored rule.
C20_RuleListAnswersEveryStoredRule ==
    [][\A g \in Guilds :
         get_guild_automod_rules(g)
         => LET stored_rules == {r \in rules : r.guild_id = g}
            IN /\ resp'.err = "NotFound" <=> stored_rules = {}
               /\ stored_rules # {}
                  => /\ StatusOf(resp'.err) = 200
                     /\ {e.id : e \in resp'.rules} = {r.id : r \in stored_rules}]_vars
\* The reminders of user_id: the timers with event 'reminder' whose payload author
\* is the string form of user_id.
RemindersOf(user_id) == {t \in timers : t.event = "reminder" /\ AuthorIs(t, user_id)}

\* C21: a bulk delete for user u is answered 200 with exactly the ids of the timers
\* it deleted, which are all and only the reminders of u (the empty list when u has
\* none, with nothing deleted); a single delete (u, id) removes exactly the
\* reminder id of u, and is answered NotFound with nothing deleted when u has no
\* reminder with that id.
C21_BulkDeleteNeverFails ==
    [][/\ \A u \in Users :
            bulk_delete_user_reminders(u)
            => /\ resp'.err = "ok"
               /\ resp'.ids = {t.id : t \in RemindersOf(u)}
               /\ timers' = timers \ RemindersOf(u)
       /\ \A u \in Users, id \in 1..MaxTimerId :
            delete_user_reminder(u, id)
            => LET mine == {t \in RemindersOf(u) : t.id = id}
               IN /\ timers' = timers \ mine
                  /\ resp'.err = "NotFound" <=> mine = {}]_vars

\* A bulk delete that returned the one reminder of its user and left a stored
\* reminder of the other user.
C21_Witness ==
    /\ resp.op = "bulkDeleteReminders" /\ Cardinality(resp.ids) = 1
    /\ \E t \in timers : t.event = "reminder" /\ ~AuthorIs(t, resp.user_id)
(***************************************************************************)
(* Properties of the rule deletion                                         *)
(***************************************************************************)
\* C22: a rule deletion for (g, t) is answered NotFound, with the rules and the
\* punishments unchanged, when guild g stores no rule of type t; otherwise it removes
\* the rules of g with type t and no other rule.  An add-rule request for a key that
\* no stored rule holds (as after its deletion) is not answered Conflict by its
\* existence check and not refused by the unique index.
C22_DeleteRuleRemovesExactlyThatRule ==
    [][/\ \A g \in Guilds, t \in ReqRuleTypes :
            delete_guild_automod_rule(g, t)
            => LET hit == {r \in rules : r.guild_id = g /\ r.type = t}
               IN /\ rules' = rules \ hit
                  /\ resp'.err = "NotFound" <=> hit = {}
                  /\ hit = {} => punishments' = punishments
                  /\ \A r \in rules' : ~(r.guild_id = g /\ r.type = t)
       /\ \A p \in ConfigProcs :
            /\ AddRuleCheck(p) \/ AddRuleInsertRule(p)
            /\ \A r \in rules : ~(r.guild_id = ar[p].guild_id /\ r.type = ar[p].event[1].type)
            => ar'[p].err \notin {"Conflict", "UniqueViolation"}]_vars

\* A deletion was answered 200 while the rules 1 and 2, of two guilds, stay stored:
\* the deleted rule is the third, stored under the guild of one of them.
C22_Witness ==
    /\ resp.op = "deleteRule" /\ resp.err = "ok"
    /\ rule_seq > 3
    /\ {r.id : r \in rules} = {1, 2}
    /\ \E r1, r2 \in rules : r1.guild_id # r2.guild_id
(***************************************************************************)
(* Properties of the report disposition patch                              *)
(***************************************************************************)
\* The report row after the flags a patch supplies are set, the rest kept.
PatchedReport(r, b) ==
    [r EXCEPT !.dismissed = IF b.dismissed = Null THEN @ ELSE b.dismissed[1],
              !.actioned = IF b.actioned = Null THEN @ ELSE b.actioned[1]]

\* C23: a report patch that supplies neither dismissed nor actioned is answered 400,
\* never NotFound, with the reports unchanged, whether or not the report exists.  A
\* patch that supplies at least one is answered NotFound, with the reports unchanged,
\* when guild g has no report of message m; otherwise it is answered 200 and sets
\* the supplied flags of that report to the supplied values (false included) and
\* changes nothing else.  A step that is no patch leaves every stored report as it
\* was and stores a new report only with both flags false.
C23_ReportPatchSetsSuppliedFlags ==
    [][/\ \A g \in Guilds, m \in Messages, b \in PatchableMessageReport :
            edit_guild_message_report(g, m, b)
            => LET hit == {r \in reports : r.guild_id = g /\ r.message_id = m}
               IN IF b.dismissed = Null /\ b.actioned = Null
                  THEN StatusOf(resp'.err) = 400 /\ reports' = reports
                  ELSE /\ resp'.err = (IF hit = {} THEN "NotFound" ELSE "ok")
                       /\ reports' = (reports \ hit) \cup {PatchedReport(r, b) : r \in hit}
       /\ (\A g \in Guilds, m \in Messages, b \in PatchableMessageReport :
               ~edit_guild_message_report(g, m, b))
            => /\ reports \subseteq reports'
               /\ \A r \in reports' \ reports : ~r.dismissed /\ ~r.actioned]_vars

\* The one stored report was actioned by an earlier patch, and the last patch, which
\* supplied dismissed alone, was answered 200 and leaves dismissed false.
C23_Witness ==
    /\ resp.op = "patchReport" /\ resp.err = "ok" /\ resp.columns = <<"dismissed">>
    /\ Cardinality(reports) = 1
    /\ \A r \in reports : r.actioned /\ ~r.dismissed
(***************************************************************************)
(* Properties of the infraction lists and deletions                        *)
(***************************************************************************)
\* The answer `r` of a list step is the serialized rows of `selected`, each once, in
\* strictly ascending id order, and NotFound exactly when `selected` is empty.
ListAnswers(r, selected) ==
    /\ r.err = (IF selected = {} THEN "NotFound" ELSE "ok")
    /\ Len(r.rows) = Cardinality(selected)
    /\ {r.rows[i] : i \in 1..Len(r.rows)} = {serialize_infraction(i) : i \in selected}
    /\ \A i, j \in 1..Len(r.rows) : i < j => r.rows[i].id < r.rows[j].id

\* C24: a list of guild g answers exactly the stored infractions of g, and a list of
\* (g, u) exactly the stored infractions of g whose user is u, in strictly ascending
\* id order, whatever creations and deletions came before; each is answered NotFound
\* exactly when that set is empty, and neither changes the ledger.
C24_ListsAnswerStoredRowsAscending ==
    [][/\ \A g \in Guilds :
            get_guild_infractions(g)
            => ListAnswers(resp', {r \in infractions : r.guild_id = g})
       /\ \A g \in Guilds, u \in LedgerUsers :
            get_guild_user_infractions(g, u)
            => ListAnswers(resp', {r \in infractions : r.guild_id = g /\ r.user_id = u})]_vars

\* A guild list answered two rows of two users while the other guild holds a row.
C24_Witness ==
    /\ resp.op = "listInfractions" /\ resp.err = "ok"
    /\ Len(resp.rows) = 2 /\ resp.rows[1].user_id # resp.rows[2].user_id
    /\ \E r \in infractions : r.guild_id # resp.guild_id
(***************************************************************************)
(* Properties of the update-fragment builder                               *)
(***************************************************************************)
\* C25: for a list of n >= 1 columns the builder returns n and the items
\* c1=$1, ..., cn=$n in input order; the two placeholders of the WHERE clause are
\* $(n+1) and $(n+2), so no placeholder occurs twice, the placeholders are exactly the
\* positions of the arguments, each column's placeholder is the position of the value
\* supplied for it, and those of the WHERE clause are the positions of the two keys.
C25_PlaceholdersLineUpWithArguments ==
    (resp.op = "updateStatement" /\ Len(resp.columns) >= 1)
    => LET n == Len(resp.columns)
           items == resp.set \o resp.where
       IN /\ resp.idx = n
          /\ Len(resp.set) = n
          /\ \A i \in 1..n : resp.set[i] = [col |-> resp.columns[i], ph |-> i]
          /\ \A i, j \in 1..Len(items) : i # j => items[i].ph # items[j].ph
          /\ {items[i].ph : i \in 1..Len(items)} = 1..Len(resp.args)
          /\ \A i \in 1..Len(items) : resp.args[items[i].ph] = ValueOf(items[i].col)

\* A statement built for three columns.
C25_Witness ==
    resp.op = "updateStatement" /\ Len(resp.columns) = 3
(***************************************************************************)
(* Properties of concurrent guild upserts                                  *)
(***************************************************************************)
\* The row an upsert of `guild` leaves for guild_id.
UpsertedRow(guild_id, guild) ==
    [id |-> guild_id, name |-> guild.name, owner_id |-> guild.owner_id,
     left_at |-> Null]

\* C26: while upserts of several clients are in flight, every stored guild row is
\* the body of one client (its name and its owner_id together) with left_at null,
\* and the statement of a request leaves, for its guild, exactly the row of its
\* body and every other guild as it was.
C26_ConcurrentUpsertsAreAtomic ==
    /\ [](\A r \in guilds : \E p \in Procs : r = UpsertedRow(r.id, ClientPayload(p)))
    /\ [][\A p \in Procs :
            UpsertExecute(p)
            => /\ {r \in guilds' : r.id = gq[p].guild_id}
                    = {UpsertedRow(gq[p].guild_id, gq[p].guild[1])}
               /\ {r \in guilds' : r.id # gq[p].guild_id}
                    = {r \in guilds : r.id # gq[p].guild_id}]_vars

\* Both clients have upserted the same guild, whose row is the body of one of them,
\* and one of the two is in flight again for that guild.
C26_Witness ==
    /\ gq[1].pc = "done" /\ gq[2].pc = "execute"
    /\ gq[1].guild_id = gq[2].guild_id
    /\ \E r \in guilds : r.id = gq[1].guild_id /\ r.name = ClientPayload(2).name
(***************************************************************************)
(* Properties of the connection pool                                       *)
(***************************************************************************)
\* The connections the add-rule requests hold.
ConnectionsHeld == Cardinality({p \in Procs : ar[p].conn})

\* The add-rule requests inside `async with pool.acquire()`.
InAcquireScope == {p \in Procs : ar[p].pc \notin {"idle", "done"}}

\* C27: an add-rule request that has completed, by success, by the 409 of the
\* existence check, by a failed insert inside the transaction or by a validation
\* error, holds no connection and no open transaction, so the connections held are
\* never more than the requests that are inside the acquire scope, however many
\* requests have failed before.
C27_ConnectionReleasedOnEveryExit ==
    /\ \A p \in Procs :
          ar[p].pc \in {"idle", "done"}
          => ~ar[p].conn /\ ar[p].txRule = {} /\ ar[p].txPunishment = {}
    /\ ConnectionsHeld <= Cardinality(InAcquireScope)

\* One request has ended by the 409, the other by a failed insert inside the
\* transaction, and an earlier one by success.
C27_Witness ==
    /\ ar[1].pc = "done" /\ ar[1].err = "Conflict"
    /\ ar[2].pc = "done" /\ ar[2].err \in {"DatabaseError", "UniqueViolation"}
    /\ rules # {}
(***************************************************************************)
(* Properties of the reporters' reports                                    *)
(***************************************************************************)
\* C28: every stored reporter row is of a (guild_id, message_id) that has a stored
\* report, so the reporters' list of a message is empty (NotFound) whenever the
\* report of that message is not found.
C28_EveryReporterHasReport ==
    \A g \in Guilds, m \in Messages :
        ReportsOf(g, m) = {} => ReportersOf(g, m) = {}
(***************************************************************************)
(* Properties of the guild scope of the infraction ledger                  *)
(***************************************************************************)
\* The infractions stored under another guild than g are the same after the step.
OtherGuildsUntouched(g) ==
    {r \in infractions' : r.guild_id # g} = {r \in infractions : r.guild_id # g}

\* C29: a get, a patch, a deleteOne and a deleteAllForUser for guild g leave the
\* infractions of every other guild stored and unchanged.  The get answers a row of
\* g with the requested id or NotFound; the patch changes at most the row of g with
\* that id; deleteOne removes exactly the row of g with that id and deleteAllForUser
\* exactly the rows of g of that user, and each is answered NotFound, removing
\* nothing, exactly when g has no such row, whatever the other guilds hold.
C29_InfractionOpsScopedToGuild ==
    [][/\ \A g \in Guilds, id \in 1..MaxLedgerId :
            (/\ resp'.op = "getInfraction" /\ resp'.guild_id = g /\ resp'.id = id
             /\ get_guild_infraction_id(g, id))
            => LET mine == {r \in infractions : r.guild_id = g /\ r.id = id}
               IN /\ resp'.err = (IF mine = {} THEN "NotFound" ELSE "ok")
                  /\ mine # {} => resp'.row.guild_id = g /\ resp'.row.id = id
                  /\ infractions' = infractions
       /\ \A g \in Guilds, id \in 1..MaxLedgerId, b \in LedgerPatches :
            (/\ resp'.op = "patchInfraction" /\ resp'.columns = InfractionPatchColumns(b)
             /\ patch_guild_infraction(g, id, b))
            => /\ OtherGuildsUntouched(g)
               /\ \A r \in infractions : r.id # id => r \in infractions'
               /\ {<<r.id, r.guild_id>> : r \in infractions'}
                    = {<<r.id, r.guild_id>> : r \in infractions}
       /\ \A g \in Guilds, id \in 1..MaxLedgerId :
            (/\ resp'.op = "deleteInfraction" /\ resp'.guild_id = g /\ resp'.id = id
             /\ delete_guild_infraction(g, id))
            => LET mine == {r \in infractions : r.guild_id = g /\ r.id = id}
               IN /\ resp'.err = (IF mine = {} THEN "NotFound" ELSE "ok")
                  /\ infractions' = infractions \ mine
       /\ \A g \in Guilds, u \in LedgerUsers :
            (/\ resp'.op = "deleteUserInfractions" /\ resp'.guild_id = g
             /\ resp'.user_id = u /\ delete_guild_user_infractions(g, u))
            => LET mine == {r \in infractions : r.guild_id = g /\ r.user_id = u}
               IN /\ resp'.err = (IF mine = {} THEN "NotFound" ELSE "ok")
                  /\ infractions' = infractions \ mine]_vars

\* A deleteOne was answered NotFound for an id that another guild stores.
C29_Witness ==
    /\ resp.op = "deleteInfraction" /\ resp.err = "NotFound"
    /\ \E r \in infractions : r.id = resp.id /\ r.guild_id # resp.guild_id
====
